---- MODULE Spec2Model ----
(***************************************************************************)
(* The consensus bootstrap supervisor of postgres-ha (src/etcd).  Every     *)
(* node runs the supervisor of src/etcd/src/main.rs: it cleans stale data,  *)
(* selects the bootstrap parameters of each attempt, spawns the daemon,     *)
(* runs the watchdog and cleans up after a daemon exit.  The helper         *)
(* functions exist twice in the repository: inside main.rs and, factored    *)
(* out, in bootstrap.rs / cluster.rs / config.rs.  The variable impl says   *)
(* which set of helpers the run uses; the retry loop is the one of main.rs. *)
(*                                                                         *)
(* The daemon and its cluster are the environment: a cluster is a member    *)
(* list (learner / voter per name); an endpoint answers the health probe    *)
(* when its daemon serves, is a voter and its cluster has a quorum of       *)
(* serving voters (a learner rejects the probe, as the comments of          *)
(* check_cluster_health say).                                               *)
(***************************************************************************)
EXTENDS Integers, FiniteSets, Sequences, TLC

\* ------------------------------------------------------------------ bounds
\* ETCD_MAX_RETRIES of the run (default 60), scaled down.
MaxRetries == 2
\* Number of daemon exits, container restarts and volume losses of a
\* behaviour (peer-wait timeouts and disk faults are not counted).
MaxFaults == 1
\* Number of clusters that can be bootstrapped in a behaviour.
MaxClusters == 2

\* Number of iterations of one watchdog run against the member-list oracle.
MaxTicks == 3

\* The Patroni supervisor, in probes: PATRONI_STARTUP_GRACE_PERIOD / 5
\* (default 12), PATRONI_MAX_STARTUP_TIMEOUT / 5 (default 60),
\* PATRONI_MAX_HEALTH_FAILURES (default 3), and the number of steady-state
\* probes of a behaviour.
GraceTicks == 1
MaxStartupTicks == 2
MaxFailures == 2
MaxProbes == 4

\* The HAProxy supervisor: iterations of the probe loop in a behaviour, and
\* rows of a stats page.
MaxHapTicks == 4
MaxBodyRows == 2

\* Entries of a POSTGRES_NODES descriptor.
MaxNodes == 2

\* Arguments of a call of the on_role_change callback.
MaxArgs == 3

\* Characters of the credential that is varied.
MaxStrLen == 2

\* Entries of a free-form cluster descriptor.
MaxEntries == 2

\* Attempts of the supervisor whose tasks are followed step by step.
MaxRounds == 2

\* Tokens of an auth file and calls of update_pg_hba_for_replication on it.
MaxHbaLen == 3
MaxCalls == 2

\* Polls of wait_for_any_healthy_peer before peer_wait_timeout runs out.
MaxPolls == 2

\* ------------------------------------------------------- program constants
\* --max-learners=2 on the daemon's command line.
MaxLearners == 2

\* The descriptor of scenario S1: a=http://a:2380,b=http://b:2380,c=http://c:2380
NameOrder == <<"a", "b", "c">>
Nodes == {NameOrder[i] : i \in 1..Len(NameOrder)}
Descriptor == Nodes

Impls == {"main", "modular"}
Roles == {"none", "learner", "voter"}
DataStates == {"none", "partial", "wal", "unreadable"}

VARIABLES
    impl,      \* which helper set the supervisors use
    pc,        \* supervisor position: boot, select, probed, running, exited
    exit,      \* exit kind of an exited supervisor: none, ok, retries, fatal
    attempt,   \* main's attempt counter
    marker,    \* <data_dir>/.bootstrap_complete exists
    data,      \* data directory: none, partial (member dir, no WAL), wal, unreadable (WAL dir cannot be read)
    cid,       \* cluster whose data the data directory holds (0: none)
    params,    \* (initial_cluster, initial_cluster_state, joined_as_learner) of the spawned daemon
    via,       \* the healthy peer endpoint the attempt found
    serving,   \* the daemon has finished its start-up and answers requests
    promoted,  \* the watchdog's promoted flag
    log,       \* etcdctl calls and wipes the current attempt has issued: remove, wipe, promote_rpc
    members,   \* member list of every cluster
    nextCid,   \* next fresh cluster id
    faults,    \* environment events so far
    wd,        \* one watchdog run against a member-list oracle
    run,       \* the Patroni supervisor and its agent child
    hap,       \* the HAProxy supervisor's monitoring loop
    tpl,       \* one run of the HAProxy configuration generator
    rc,        \* one run of the on_role_change callback
    pb,        \* one run of the post-bootstrap script
    yml,       \* the agent configuration file: rendered by the runner, read by post-bootstrap
    prs,       \* the start of the Patroni runner: configuration, adoption, spawn
    dp,        \* the etcd supervisor's first attempt on a free-form descriptor
    tk,        \* the tasks of one etcd supervisor: main, watchdog, blocking file write
    sc,        \* the entrypoint's check of the server certificate
    hb,        \* update_pg_hba_for_replication over restarts
    sel        \* one attempt's parameter selection, call by call

etcdVars == <<impl, pc, exit, attempt, marker, data, cid, params, via, serving,
              promoted, log, members, nextCid, faults>>

\* The variables of the other components.
nonEtcd == <<wd, run, hap, tpl, rc, pb, yml, prs, dp, tk, sc, hb, sel>>

vars == <<etcdVars, nonEtcd>>

\* params of a supervisor whose daemon is not spawned.  Beside the three
\* values main computes, params keeps what held when they were computed:
\* marker (the marker existed), cid (the cluster of the endpoint joined) and,
\* for cluster_state "new", healthy (a remote endpoint answers the health
\* probe as healthy) and survivors (a remote daemon serves from a data
\* directory with marker).
NoParams ==
    [ic |-> {}, state |-> "none", jl |-> FALSE, marker |-> FALSE, cid |-> 0,
     healthy |-> FALSE, survivors |-> FALSE]

\* ---------------------------------------------------------------- config
Rank(n) == CHOOSE i \in 1..Len(NameOrder) : NameOrder[i] = n

\* String order of the names ("a" < "b" < "c").
NameLess(x, y) == Rank(x) < Rank(y)

get_bootstrap_leader_max(cluster) ==
    CHOOSE n \in cluster : \A m \in cluster : m = n \/ NameLess(m, n)

\* cluster.keys().min()
get_bootstrap_leader(cluster) ==
    CHOOSE n \in cluster : \A m \in cluster : m = n \/ NameLess(n, m)

is_leader(n) == n = get_bootstrap_leader(Descriptor)

\* ------------------------------------------------------------ environment
Voters(c) == {v \in Nodes : members[c][v] = "voter"}

Learners(m) == {v \in Nodes : m[v] = "learner"}

Listed(m) == {v \in Nodes : m[v] # "none"}

Quorum(c) ==
    2 * Cardinality({v \in Voters(c) : serving[v] /\ cid[v] = c}) > Cardinality(Voters(c))

\* The endpoint answers a request at all: its daemon serves as a voter.
MemberListOk(e) == serving[e] /\ cid[e] # 0 /\ members[cid[e]][e] = "voter"

\* etcdctl endpoint health --endpoints=<client endpoint of e>
Health(e) == MemberListOk(e) /\ Quorum(cid[e])

\* ---------------------------------------------------------------- helpers
check_existing_cluster_none(n) == {}

\* The remote endpoints that answer healthy; the caller takes the first one
\* in the map's iteration order.
check_existing_cluster(n) == {e \in Descriptor \ {n} : Health(e)}

wait_for_any_healthy_peer_others(n) ==
    {e \in Descriptor \ {n, get_bootstrap_leader(Descriptor)} : Health(e)}

\* The peers wait_for_any_healthy_peer can return in one poll: the preferred
\* leader if it is healthy, else any other healthy peer.
wait_for_any_healthy_peer(n) ==
    LET leader == get_bootstrap_leader(Descriptor)
    IN IF leader # n /\ Health(leader) THEN {leader}
       ELSE {e \in Descriptor \ {n, leader} : Health(e)}

\* has_local_data as add_self_to_cluster uses it.  main.rs: a WAL directory
\* that cannot be read counts as no data.  cluster.rs: Err, which the caller
\* turns into "data present".
has_local_data(im, d) ==
    IF im = "main" THEN d = "wal" ELSE d \in {"wal", "unreadable"}

\* Removing the entries of the data directory; a directory that cannot be
\* read cannot be emptied.
Wiped(d) == IF d = "unreadable" THEN "unreadable" ELSE "none"

MemberAddVoter(m, n) == [m EXCEPT ![n] = "voter"]

\* etcdctl member add <name> --learner
MemberAdd(m, n) == [m EXCEPT ![n] = "learner"]

MemberRemove(m, n) == [m EXCEPT ![n] = "none"]

MarkerConditionAlways(jl, prom) == TRUE

\* !joined_as_learner || promoted
MarkerCondition(jl, prom) == ~jl \/ prom


post_exit_cleanup_always(mk, d) == Wiped(d)

\* The cleanup after a non-zero daemon exit: without marker every entry of
\* the data directory is removed (removal errors are ignored).
post_exit_cleanup(mk, d) == IF ~mk THEN Wiped(d) ELSE d

clean_stale_data_always(im, mk, d) ==
    IF d # "none" THEN [err |-> d = "unreadable", data |-> Wiped(d)]
    ELSE [err |-> FALSE, data |-> d]

\* clean_stale_data at start-up.  main.rs: any entry in the data directory
\* and no marker -> remove every entry, errors propagate.  bootstrap.rs:
\* has_local_data(...)? first (an unreadable WAL directory is an error), then
\* clear_directory when WAL files exist and there is no marker.
clean_stale_data(im, mk, d) ==
    IF im = "main"
    THEN IF d # "none" /\ ~mk
         THEN [err |-> d = "unreadable", data |-> Wiped(d)]
         ELSE [err |-> FALSE, data |-> d]
    ELSE IF d = "unreadable" THEN [err |-> TRUE, data |-> d]
         ELSE IF d = "wal" /\ ~mk THEN [err |-> FALSE, data |-> "none"]
         ELSE [err |-> FALSE, data |-> d]

\* add_self_to_cluster(config, leader) against an endpoint e that answered
\* member list: the new member list of e's cluster, the new data directory,
\* the returned descriptor and what was done.
add_self_to_cluster(im, n, e) ==
    LET m == members[cid[e]]
        listed == m[n] # "none"
        m1 == IF listed THEN MemberRemove(m, n) ELSE m
        d1 == IF listed THEN Wiped(data[n]) ELSE data[n]
        ops1 == IF listed THEN {"remove", "wipe"} ELSE {}
    IN IF listed /\ has_local_data(im, data[n])
       THEN [ok |-> TRUE, m |-> m, data |-> data[n], ic |-> Listed(m) \cup {n}, ops |-> {}]
       ELSE IF ~Health(e)
       THEN [ok |-> FALSE, m |-> m, data |-> data[n], ic |-> {}, ops |-> {}]
       ELSE IF Cardinality(Learners(m1)) >= MaxLearners
       THEN [ok |-> FALSE, m |-> m1, data |-> d1, ic |-> {}, ops |-> ops1]
       ELSE [ok |-> TRUE, m |-> MemberAdd(m1, n), data |-> d1,
             ic |-> Listed(MemberAdd(m1, n)), ops |-> ops1]

\* The Recover branch of the leader against an endpoint e that still answers:
\* remove_stale_self (its result is ignored), then member add --learner.
recover_as_leader(n, e) ==
    LET m == members[cid[e]]
        listed == m[n] # "none"
        m1 == IF listed THEN MemberRemove(m, n) ELSE m
        ops1 == IF listed THEN {"remove"} ELSE {}
    IN IF Cardinality(Learners(m1)) >= MaxLearners
       THEN [ok |-> FALSE, m |-> m1, ic |-> {}, ops |-> ops1]
       ELSE [ok |-> TRUE, m |-> MemberAdd(m1, n), ic |-> Listed(MemberAdd(m1, n)),
             ops |-> ops1]

\* get_voting_member_endpoint: the endpoints that answer member list; the
\* caller takes the first one in the map's iteration order.
get_voting_member_endpoint == {e \in Descriptor : MemberListOk(e)}

\* The answers check_cluster_health can give to node n.
check_cluster_health(n) ==
    IF Health(n) THEN {TRUE}
    ELSE IF get_voting_member_endpoint = {} THEN {FALSE}
    ELSE {Health(e) : e \in get_voting_member_endpoint}

\* promote_self through the voting endpoint e.
promote_self(n, e) ==
    LET m == members[cid[e]]
    IN IF m[n] = "none" THEN [ok |-> FALSE, rpc |-> FALSE, m |-> m]
       ELSE IF m[n] = "voter" THEN [ok |-> TRUE, rpc |-> FALSE, m |-> m]
       ELSE IF Health(e) /\ serving[n] /\ cid[n] = cid[e]
       THEN [ok |-> TRUE, rpc |-> TRUE, m |-> [m EXCEPT ![n] = "voter"]]
       ELSE [ok |-> FALSE, rpc |-> TRUE, m |-> m]

\* ------------------------------------------------------------------- Init
\* The watchdog-against-an-oracle run is not started.
WdIdle ==
    [kind |-> "idle", jl |-> FALSE, alive |-> FALSE, promoted |-> FALSE,
     marker |-> FALSE, role |-> "none", rpcs |-> 0, ticks |-> 0,
     cause |-> "none", ok |-> FALSE, wrote |-> FALSE]

\* The Patroni supervisor is not started.
RunIdle ==
    [src |-> "idle", phase |-> "idle", elapsed |-> 0, failures |-> 0,
     child |-> "up", childCode |-> -1, stubborn |-> FALSE, sent |-> <<>>,
     code |-> -1, events |-> {}, healthySeen |-> FALSE, hist |-> <<>>,
     why |-> "none"]

\* The HAProxy monitoring loop is not started.
HapIdle ==
    [phase |-> "idle", single |-> FALSE, alerted |-> FALSE, events |-> 0,
     hist |-> <<>>, code |-> -1, last |-> "none", child |-> "running",
     child_code |-> -1]

\* The configuration generator is not started.
TplIdle == [phase |-> "idle", desc |-> <<>>, out |-> <<>>]

\* The callback is not called.
RcIdle ==
    [phase |-> "idle", args |-> <<>>, code |-> -1, event |-> "none",
     telemetry |-> "none"]

\* The post-bootstrap script is not started.
PbIdle ==
    [phase |-> "idle", file |-> "ok",
     creds |-> [repl_user |-> "", repl_pass |-> "", superuser |-> "",
                superuser_pass |-> ""],
     app_db |-> FALSE, app_grant |-> FALSE, failed |-> "none",
     events |-> {}, marker |-> FALSE, code |-> -1]

\* No credentials: the bundle of an idle run.
NoBundle ==
    [superuser |-> <<>>, superuser_pass |-> <<>>, repl_user |-> <<>>,
     repl_pass |-> <<>>, app_user |-> <<>>, app_pass |-> <<>>, app_db |-> <<>>]

\* The agent configuration is not rendered.
YmlIdle ==
    [phase |-> "idle", bundle |-> NoBundle, content |-> <<>>, ok |-> FALSE,
     got |-> NoBundle]

\* The Patroni runner is not started.
PrsIdle ==
    [phase |-> "idle", src |-> "runner", env |-> [ttl |-> -1, loop_wait |-> -1, retry_timeout |-> -1],
     adopt |-> FALSE, pg_control |-> FALSE, marker |-> FALSE, hba |-> "absent",
     cfg |-> [ttl |-> -1, loop_wait |-> -1, retry_timeout |-> -1],
     written |-> FALSE, spawned |-> FALSE, code |-> -1]

\* The supervisor with a free-form descriptor is not started.
DpIdle ==
    [phase |-> "idle", desc |-> <<>>, me |-> "a", marker |-> FALSE,
     spawned |-> FALSE, state |-> "none", ops |-> {}, retried |-> FALSE,
     code |-> -1]

\* The tasks of one etcd supervisor are not started.
TkIdle ==
    [main |-> "idle", watchdog |-> "idle", write |-> "none", marker |-> FALSE,
     data |-> FALSE, jl |-> FALSE, promoted |-> FALSE, round |-> 0, ticks |-> 0]

\* The entrypoint's certificate check is not started.
ScIdle ==
    [phase |-> "idle", cert |-> "missing", left |-> 0, valid_timeout |-> FALSE,
     expiry_timeout |-> FALSE, init_ok |-> FALSE, regenerated |-> FALSE,
     code |-> -1]

\* update_pg_hba_for_replication is not called.
HbIdle ==
    [phase |-> "idle", src |-> "runner", user |-> <<>>,
     orig |-> [exists |-> FALSE, content |-> <<>>],
     file |-> [exists |-> FALSE, content |-> <<>>],
     mode |-> "orig", calls |-> 0]

\* A parameter selection that has not run.
NoSel ==
    [done |-> FALSE, calls |-> <<>>, out |-> "none", ic |-> "none", via |-> "none",
     data |-> "none"]

\* No parameter selection is started.
SelIdle ==
    [phase |-> "idle",
     inp |-> [leader |-> FALSE, marker |-> FALSE,
              ans |-> [p |-> "unhealthy", q |-> "unhealthy"],
              order |-> <<"p", "q">>, listed |-> "no", data |-> "none",
              list1 |-> FALSE, rm |-> FALSE, add |-> FALSE, out_line |-> FALSE,
              list2 |-> FALSE],
     out |-> [main |-> NoSel, modular |-> NoSel]]

\* No component beside the etcd supervisors is started.
OthersIdle ==
    /\ wd = WdIdle
    /\ run = RunIdle
    /\ hap = HapIdle
    /\ tpl = TplIdle
    /\ rc = RcIdle
    /\ pb = PbIdle
    /\ yml = YmlIdle
    /\ prs = PrsIdle
    /\ dp = DpIdle
    /\ tk = TkIdle
    /\ sc = ScIdle
    /\ hb = HbIdle
    /\ sel = SelIdle

EtcdInit ==
    /\ impl \in Impls
    /\ pc = [n \in Nodes |-> "boot"]
    /\ exit = [n \in Nodes |-> "none"]
    /\ attempt = [n \in Nodes |-> 1]
    /\ marker = [n \in Nodes |-> FALSE]
    /\ data = [n \in Nodes |-> "none"]
    /\ cid = [n \in Nodes |-> 0]
    /\ params = [n \in Nodes |-> NoParams]
    /\ via = [n \in Nodes |-> "none"]
    /\ serving = [n \in Nodes |-> FALSE]
    /\ promoted = [n \in Nodes |-> FALSE]
    /\ log = [n \in Nodes |-> {}]
    /\ members = [c \in 1..MaxClusters |-> [n \in Nodes |-> "none"]]
    /\ nextCid = 1
    /\ faults = 0

Init ==
    /\ EtcdInit
    /\ OthersIdle

\* ------------------------------------------------------- supervisor steps
Retry_no_count(n) ==
    /\ attempt' = attempt
    /\ pc' = [pc EXCEPT ![n] = "select"]
    /\ exit' = [exit EXCEPT ![n] = "none"]
    /\ via' = [via EXCEPT ![n] = "none"]
    /\ params' = [params EXCEPT ![n] = NoParams]
    /\ serving' = [serving EXCEPT ![n] = FALSE]
    /\ promoted' = [promoted EXCEPT ![n] = FALSE]

\* attempt += 1; continue: back to the loop head, or out of the loop and
\* std::process::exit(1).
Retry(n) ==
    /\ attempt' = [attempt EXCEPT ![n] = @ + 1]
    /\ pc' = [pc EXCEPT ![n] = IF attempt[n] + 1 <= MaxRetries THEN "select" ELSE "exited"]
    /\ exit' = [exit EXCEPT ![n] = IF attempt[n] + 1 <= MaxRetries THEN "none" ELSE "retries"]
    /\ via' = [via EXCEPT ![n] = "none"]
    /\ params' = [params EXCEPT ![n] = NoParams]
    /\ serving' = [serving EXCEPT ![n] = FALSE]
    /\ promoted' = [promoted EXCEPT ![n] = FALSE]

\* start_etcd and the spawn of the watchdog.
Spawn(n, ic, st, jl, target) ==
    /\ pc' = [pc EXCEPT ![n] = "running"]
    /\ params' = [params EXCEPT ![n] =
            [ic |-> ic, state |-> st, jl |-> jl, marker |-> marker[n], cid |-> target,
             healthy |-> st = "new" /\ \E e \in Descriptor \ {n} : Health(e),
             survivors |-> st = "new" /\ \E e \in Descriptor \ {n} : serving[e] /\ marker[e]]]
    /\ serving' = [serving EXCEPT ![n] = FALSE]
    /\ promoted' = [promoted EXCEPT ![n] = FALSE]
    /\ via' = [via EXCEPT ![n] = "none"]
    /\ UNCHANGED <<exit, attempt>>

\* main before the loop: create_dir_all, clean_stale_data, role.
Boot(n) ==
    /\ UNCHANGED nonEtcd
    /\ pc[n] = "boot"
    /\ LET r == clean_stale_data(impl, marker[n], data[n])
       IN /\ data' = [data EXCEPT ![n] = r.data]
          /\ cid' = [cid EXCEPT ![n] = IF r.data = "none" THEN 0 ELSE @]
          /\ pc' = [pc EXCEPT ![n] = IF r.err THEN "exited" ELSE "select"]
          /\ exit' = [exit EXCEPT ![n] = IF r.err THEN "fatal" ELSE "none"]
          /\ log' = [log EXCEPT ![n] = {}]
    /\ attempt' = [attempt EXCEPT ![n] = 1]
    /\ UNCHANGED <<impl, marker, params, via, serving, promoted, members, nextCid, faults>>

\* Marker present: start normally with the full descriptor.
Resume(n) ==
    /\ UNCHANGED nonEtcd
    /\ pc[n] = "select"
    /\ marker[n]
    /\ Spawn(n, Descriptor, "existing", FALSE, cid[n])
    /\ data' = [data EXCEPT ![n] = IF @ = "none" THEN "partial" ELSE @]
    /\ UNCHANGED <<impl, marker, cid, log, members, nextCid, faults>>

\* Leader, no marker, no peer answers healthy: single-node bootstrap.
LeaderFresh(n) ==
    /\ UNCHANGED nonEtcd
    /\ pc[n] = "select"
    /\ is_leader(n)
    /\ ~marker[n]
    /\ check_existing_cluster(n) = {}
    /\ Spawn(n, {n}, "new", FALSE, 0)
    /\ data' = [data EXCEPT ![n] = IF @ = "none" THEN "partial" ELSE @]
    /\ UNCHANGED <<impl, marker, cid, log, members, nextCid, faults>>

\* Leader, no marker, a peer answers healthy: recovery mode.
LeaderProbe(n) ==
    /\ UNCHANGED nonEtcd
    /\ pc[n] = "select"
    /\ is_leader(n)
    /\ ~marker[n]
    /\ \E e \in check_existing_cluster(n) :
         /\ via' = [via EXCEPT ![n] = e]
         /\ pc' = [pc EXCEPT ![n] = "probed"]
    /\ UNCHANGED <<impl, exit, attempt, marker, data, cid, params, serving,
                   promoted, log, members, nextCid, faults>>

LeaderRecover(n) ==
    /\ UNCHANGED nonEtcd
    /\ pc[n] = "probed"
    /\ is_leader(n)
    /\ LET e == via[n]
           r == recover_as_leader(n, e)
       IN IF ~Health(e)
          THEN /\ Retry(n)
               /\ log' = [log EXCEPT ![n] = {}]
               /\ UNCHANGED <<data, members>>
          ELSE /\ members' = [members EXCEPT ![cid[e]] = r.m]
               /\ IF r.ok
                  THEN /\ Spawn(n, r.ic, "existing", TRUE, cid[e])
                       /\ data' = [data EXCEPT ![n] = IF @ = "none" THEN "partial" ELSE @]
                       /\ log' = [log EXCEPT ![n] = @ \cup r.ops]
                  ELSE /\ Retry(n)
                       /\ log' = [log EXCEPT ![n] = {}]
                       /\ UNCHANGED data
    /\ UNCHANGED <<impl, marker, cid, nextCid, faults>>

\* Non-leader, no marker: a poll of wait_for_any_healthy_peer finds a peer.
FollowerProbe(n) ==
    /\ UNCHANGED nonEtcd
    /\ pc[n] = "select"
    /\ ~is_leader(n)
    /\ ~marker[n]
    /\ \E e \in wait_for_any_healthy_peer(n) :
         /\ via' = [via EXCEPT ![n] = e]
         /\ pc' = [pc EXCEPT ![n] = "probed"]
    /\ UNCHANGED <<impl, exit, attempt, marker, data, cid, params, serving,
                   promoted, log, members, nextCid, faults>>

\* peer_wait_timeout runs out with no healthy peer: retry needed.
FollowerTimeout(n) ==
    /\ UNCHANGED nonEtcd
    /\ pc[n] = "select"
    /\ ~is_leader(n)
    /\ ~marker[n]
    /\ wait_for_any_healthy_peer(n) = {}
    /\ Retry(n)
    /\ log' = [log EXCEPT ![n] = {}]
    /\ UNCHANGED <<impl, marker, data, cid, members, nextCid, faults>>

FollowerJoin(n) ==
    /\ UNCHANGED nonEtcd
    /\ pc[n] = "probed"
    /\ ~is_leader(n)
    /\ LET e == via[n]
           r == add_self_to_cluster(impl, n, e)
       IN IF ~MemberListOk(e)
          THEN /\ Retry(n)
               /\ log' = [log EXCEPT ![n] = {}]
               /\ UNCHANGED <<data, cid, members>>
          ELSE /\ members' = [members EXCEPT ![cid[e]] = r.m]
               /\ cid' = [cid EXCEPT ![n] = IF r.data = "none" THEN 0 ELSE @]
               /\ IF r.ok
                  THEN /\ Spawn(n, r.ic, "existing", TRUE, cid[e])
                       /\ data' = [data EXCEPT ![n] =
                                     IF r.data = "none" THEN "partial" ELSE r.data]
                       /\ log' = [log EXCEPT ![n] = @ \cup r.ops]
                  ELSE /\ Retry(n)
                       /\ data' = [data EXCEPT ![n] = r.data]
                       /\ log' = [log EXCEPT ![n] = {}]
    /\ UNCHANGED <<impl, marker, nextCid, faults>>


\* -------------------------------------------------------------- the daemon
\* The daemon finishes its start-up.  With a WAL it resumes the cluster of
\* its data directory and ignores the initial-cluster settings; without one
\* it creates the cluster it was told to create ("new") or fetches the
\* cluster it was added to from a healthy voter ("existing").
DaemonReady(n) ==
    /\ UNCHANGED nonEtcd
    /\ pc[n] = "running"
    /\ ~serving[n]
    /\ \/ /\ data[n] = "wal"
          /\ members[cid[n]][n] # "none"
          /\ UNCHANGED <<data, cid, members, nextCid>>
       \/ /\ data[n] \in {"none", "partial"}
          /\ params[n].state = "new"
          /\ nextCid <= MaxClusters
          /\ members' = [members EXCEPT ![nextCid] =
                 [v \in Nodes |-> IF v \in params[n].ic THEN "voter" ELSE "none"]]
          /\ cid' = [cid EXCEPT ![n] = nextCid]
          /\ nextCid' = nextCid + 1
          /\ data' = [data EXCEPT ![n] = "wal"]
       \/ /\ data[n] \in {"none", "partial"}
          /\ params[n].state = "existing"
          /\ params[n].cid # 0
          /\ members[params[n].cid][n] # "none"
          /\ \E v \in Nodes \ {n} : Health(v) /\ cid[v] = params[n].cid
          /\ cid' = [cid EXCEPT ![n] = params[n].cid]
          /\ data' = [data EXCEPT ![n] = "wal"]
          /\ UNCHANGED <<members, nextCid>>
    /\ serving' = [serving EXCEPT ![n] = TRUE]
    /\ UNCHANGED <<impl, pc, exit, attempt, marker, params, via, promoted, log, faults>>

\* One iteration of monitor_and_mark_bootstrap that finds the cluster healthy.
Tick(n) ==
    /\ UNCHANGED nonEtcd
    /\ pc[n] = "running"
    /\ TRUE \in check_cluster_health(n)
    /\ \E e \in (IF get_voting_member_endpoint = {} THEN {"none"} ELSE get_voting_member_endpoint) :
         LET try == params[n].jl /\ ~promoted[n]
             found == try /\ e # "none"
             r == promote_self(n, e)
             prom == IF found THEN r.ok ELSE promoted[n]
             write == ~marker[n] /\ MarkerCondition(params[n].jl, prom)
         IN /\ promoted' = [promoted EXCEPT ![n] = prom]
            /\ IF found
               THEN members' = [members EXCEPT ![cid[e]] = r.m]
               ELSE UNCHANGED members
            /\ marker' = [marker EXCEPT ![n] = @ \/ write]
            /\ log' = [log EXCEPT ![n] =
                           @ \cup (IF found /\ r.rpc THEN {"promote_rpc"} ELSE {})]
    /\ UNCHANGED <<impl, pc, exit, attempt, data, cid, params, via, serving, nextCid, faults>>

\* child.wait() returns; the watchdog is aborted.  Success ends main; any
\* other status runs the post-exit cleanup and consumes an attempt.
ChildExit(n, success) ==
    /\ UNCHANGED nonEtcd
    /\ pc[n] = "running"
    /\ faults < MaxFaults
    /\ faults' = faults + 1
    /\ IF success
       THEN /\ pc' = [pc EXCEPT ![n] = "exited"]
            /\ exit' = [exit EXCEPT ![n] = "ok"]
            /\ serving' = [serving EXCEPT ![n] = FALSE]
            /\ params' = [params EXCEPT ![n] = NoParams]
            /\ promoted' = [promoted EXCEPT ![n] = FALSE]
            /\ log' = [log EXCEPT ![n] = {}]
            /\ UNCHANGED <<attempt, data, cid, via>>
       ELSE /\ Retry(n)
            /\ data' = [data EXCEPT ![n] = post_exit_cleanup(marker[n], @)]
            /\ cid' = [cid EXCEPT ![n] =
                          IF post_exit_cleanup(marker[n], data[n]) = "none" THEN 0 ELSE @]
            /\ log' = [log EXCEPT ![n] = {}]
    /\ UNCHANGED <<impl, marker, members, nextCid>>

\* The container is restarted while the daemon runs or after the supervisor
\* has exited; the volume is kept.
Restart(n) ==
    /\ UNCHANGED nonEtcd
    /\ pc[n] \in {"running", "exited"}
    /\ faults < MaxFaults
    /\ faults' = faults + 1
    /\ pc' = [pc EXCEPT ![n] = "boot"]
    /\ exit' = [exit EXCEPT ![n] = "none"]
    /\ attempt' = [attempt EXCEPT ![n] = 1]
    /\ params' = [params EXCEPT ![n] = NoParams]
    /\ via' = [via EXCEPT ![n] = "none"]
    /\ serving' = [serving EXCEPT ![n] = FALSE]
    /\ promoted' = [promoted EXCEPT ![n] = FALSE]
    /\ log' = [log EXCEPT ![n] = {}]
    /\ UNCHANGED <<impl, marker, data, cid, members, nextCid>>

\* The container is restarted on a fresh, empty volume.
VolumeLoss(n) ==
    /\ UNCHANGED nonEtcd
    /\ pc[n] \in {"running", "exited"}
    /\ faults < MaxFaults
    /\ faults' = faults + 1
    /\ pc' = [pc EXCEPT ![n] = "boot"]
    /\ exit' = [exit EXCEPT ![n] = "none"]
    /\ attempt' = [attempt EXCEPT ![n] = 1]
    /\ params' = [params EXCEPT ![n] = NoParams]
    /\ via' = [via EXCEPT ![n] = "none"]
    /\ serving' = [serving EXCEPT ![n] = FALSE]
    /\ promoted' = [promoted EXCEPT ![n] = FALSE]
    /\ log' = [log EXCEPT ![n] = {}]
    /\ marker' = [marker EXCEPT ![n] = FALSE]
    /\ data' = [data EXCEPT ![n] = "none"]
    /\ cid' = [cid EXCEPT ![n] = 0]
    /\ UNCHANGED <<impl, members, nextCid>>

\* The WAL directory of the volume becomes unreadable, and stays so until
\* the volume is replaced.
WalFault(n) ==
    /\ UNCHANGED nonEtcd
    /\ data[n] = "wal"
    /\ data' = [data EXCEPT ![n] = "unreadable"]
    /\ UNCHANGED <<impl, pc, exit, attempt, marker, cid, params, via, serving,
                   promoted, log, members, nextCid, faults>>

\* ------------------------------------------------------------------- Next
Next ==
    \E n \in Nodes :
        \/ Boot(n)
        \/ Resume(n)
        \/ LeaderFresh(n)
        \/ LeaderProbe(n)
        \/ LeaderRecover(n)
        \/ FollowerProbe(n)
        \/ FollowerTimeout(n)
        \/ FollowerJoin(n)
        \/ DaemonReady(n)
        \/ Tick(n)
        \/ \E success \in BOOLEAN : ChildExit(n, success)
        \/ Restart(n)
        \/ VolumeLoss(n)

Spec == Init /\ [][Next]_vars

NextFault == Next \/ \E n \in Nodes : WalFault(n)

SpecFault == Init /\ [][NextFault]_vars

\* Scenario S1: the nodes start together on empty volumes, every daemon
\* stays up, no container is restarted, and the leader answers within
\* peer_wait_timeout.  Every supervisor, watchdog and daemon keeps running.
StepLive(n) ==
    \/ Boot(n)
    \/ LeaderFresh(n)
    \/ FollowerProbe(n)
    \/ FollowerJoin(n)
    \/ DaemonReady(n)
    \/ Tick(n)

NextLive == \E n \in Nodes : StepLive(n)

LiveSpec == Init /\ [][NextLive]_vars /\ \A n \in Nodes : WF_vars(StepLive(n))

TypeOK ==
    /\ impl \in Impls
    /\ pc \in [Nodes -> {"boot", "select", "probed", "running", "exited"}]
    /\ exit \in [Nodes -> {"none", "ok", "retries", "fatal"}]
    /\ attempt \in [Nodes -> 1..(MaxRetries + 1)]
    /\ marker \in [Nodes -> BOOLEAN]
    /\ data \in [Nodes -> DataStates]
    /\ cid \in [Nodes -> 0..MaxClusters]
    /\ via \in [Nodes -> Nodes \cup {"none"}]
    /\ serving \in [Nodes -> BOOLEAN]
    /\ promoted \in [Nodes -> BOOLEAN]
    /\ log \in [Nodes -> SUBSET {"remove", "wipe", "promote_rpc"}]
    /\ members \in [1..MaxClusters -> [Nodes -> Roles]]
    /\ nextCid \in 1..(MaxClusters + 1)
    /\ faults \in 0..MaxFaults


\* ------------------------------------------- the watchdog against an oracle
\* One run of monitor_and_mark_bootstrap, every CLI call answered by an
\* oracle.  wd.role is the node's true entry in the member list; kind "flip"
\* is the oracle whose member list always answers, accurately, and whose
\* member promote always takes effect; kind "free" answers anything a
\* cluster can answer (a failed or stale member list, a refused or a lost
\* promote).  wd.cause names what
\* the oracle answered to the promote_self of the last iteration, wd.ok what
\* promote_self returned, wd.wrote whether that iteration wrote the marker.
HealthAnswers == {"true", "false", "err"}
EndpointAnswers == {"some", "none", "err"}
ListAnswers == {"ok", "err"}
RpcAnswers == {"ok", "err", "lost"}

\* check_cluster_health as the watchdog sees it.  main.rs returns bool (a
\* CLI call that cannot be executed counts as unhealthy); bootstrap.rs
\* propagates the error with "?" and the watchdog ends.
wd_health(im, hc) ==
    IF hc = "err" THEN (IF im = "main" THEN "false" ELSE "stop") ELSE hc

is_learner_always(im, lrn, role, stale) == "true"

\* is_learner(endpoint, my_name).  main.rs: a member list that cannot be
\* fetched counts as "not a learner".  cluster.rs: Err.
is_learner(im, lrn, role, stale) ==
    IF lrn = "err" THEN (IF im = "main" THEN "false" ELSE "err")
    ELSE IF role = "learner" \/ (role = "voter" /\ stale) THEN "true"
    ELSE "false"

\* What etcdctl member promote answers and does to the member list.
promote_rpc(role, rpc) ==
    IF role = "voter" THEN [reply |-> "is not a learner", role |-> role]
    ELSE IF role = "none" THEN [reply |-> "other", role |-> role]
    ELSE IF rpc = "ok" THEN [reply |-> "ok", role |-> "voter"]
    ELSE IF rpc = "lost" THEN [reply |-> "other", role |-> "voter"]
    ELSE [reply |-> "other", role |-> role]

promote_reply_ok_strict(reply) == reply = "ok"

\* Ok(_) => Ok(()), Err(e) if e contains "is not a learner" => Ok(())
promote_reply_ok(reply) == reply \in {"ok", "is not a learner"}

\* promote_self with the oracle's answers, in the order the code asks.
promote_self_against(im, role, ep, idl, lrn, stale, rpc) ==
    LET il == is_learner(im, lrn, role, stale)
        r == promote_rpc(role, rpc)
    IN IF ep # "some"
       THEN [cause |-> "no_endpoint", ok |-> FALSE, rpc |-> FALSE, role |-> role]
       ELSE IF idl = "err" \/ role = "none"
       THEN [cause |-> "no_id", ok |-> FALSE, rpc |-> FALSE, role |-> role]
       ELSE IF lrn = "err"
       THEN [cause |-> "learner_list_err", ok |-> il = "false", rpc |-> FALSE, role |-> role]
       ELSE IF il = "false"
       THEN [cause |-> "already_voter", ok |-> TRUE, rpc |-> FALSE, role |-> role]
       ELSE [cause |-> IF r.reply = "ok" THEN "rpc_ok"
                       ELSE IF r.reply = "is not a learner" THEN "not_a_learner"
                       ELSE "rpc_err",
             ok |-> promote_reply_ok(r.reply), rpc |-> TRUE, role |-> r.role]

WatchdogInit ==
    /\ EtcdInit
    /\ run = RunIdle
    /\ hap = HapIdle
    /\ tpl = TplIdle
    /\ rc = RcIdle
    /\ pb = PbIdle
    /\ yml = YmlIdle
    /\ prs = PrsIdle
    /\ dp = DpIdle
    /\ tk = TkIdle
    /\ sc = ScIdle
    /\ hb = HbIdle
    /\ sel = SelIdle
    /\ wd \in {[WdIdle EXCEPT !.kind = k, !.jl = j, !.alive = TRUE, !.marker = mk, !.role = r] :
                 k \in {"flip", "free"}, j \in BOOLEAN, mk \in BOOLEAN, r \in Roles}
    /\ wd.jl => ~wd.marker
    /\ ~wd.jl => wd.role = "voter"
    /\ (wd.jl /\ wd.kind = "flip") => wd.role = "learner"

\* One iteration of the loop of monitor_and_mark_bootstrap.
WdTick ==
    /\ wd.alive
    /\ wd.ticks < MaxTicks
    /\ \E hc \in HealthAnswers, ep \in EndpointAnswers, idl \in ListAnswers,
          lrn \in ListAnswers, stale \in BOOLEAN, rpc \in RpcAnswers :
         /\ wd.kind = "flip" =>
               (~stale /\ rpc # "err" /\ idl = "ok" /\ lrn = "ok")
         /\ LET h == wd_health(impl, hc)
                try == h = "true" /\ wd.jl /\ ~wd.promoted
                r == promote_self_against(impl, wd.role, ep, idl, lrn, stale, rpc)
                prom == IF try THEN r.ok ELSE wd.promoted
                write == h = "true" /\ ~wd.marker /\ MarkerCondition(wd.jl, prom)
            IN wd' = [wd EXCEPT !.alive = h # "stop",
                                !.ticks = @ + 1,
                                !.promoted = prom,
                                !.role = IF try THEN r.role ELSE @,
                                !.rpcs = IF try /\ r.rpc THEN @ + 1 ELSE @,
                                !.cause = IF try THEN r.cause ELSE "none",
                                !.ok = try /\ r.ok,
                                !.marker = @ \/ write,
                                !.wrote = write]
    /\ UNCHANGED <<etcdVars, run, hap, tpl, rc, pb, yml, prs, dp, tk, sc, hb, sel>>

\* monitor_handle.abort() after the daemon has exited.
WdAbort ==
    /\ wd.alive
    /\ wd' = [wd EXCEPT !.alive = FALSE, !.cause = "none", !.ok = FALSE, !.wrote = FALSE]
    /\ UNCHANGED <<etcdVars, run, hap, tpl, rc, pb, yml, prs, dp, tk, sc, hb, sel>>

WatchdogNext == WdTick \/ WdAbort

WatchdogSpec == WatchdogInit /\ [][WatchdogNext]_vars


\* ------------------------------------------------- the Patroni supervisor
\* run_monitoring_loop exists twice: in patroni/monitoring.rs (src
\* "monitoring") and inline in the main of bin/patroni_runner.rs (src
\* "runner").  run.elapsed counts the start-up probes (startup_elapsed / 5),
\* run.sent is the sequence of signals sent to the child, run.hist the
\* results of the steady-state probes, run.why the branch that left the loop.
RunSrcs == {"monitoring", "runner"}

RunnerInit ==
    /\ EtcdInit
    /\ wd = WdIdle
    /\ hap = HapIdle
    /\ tpl = TplIdle
    /\ rc = RcIdle
    /\ pb = PbIdle
    /\ yml = YmlIdle
    /\ prs = PrsIdle
    /\ dp = DpIdle
    /\ tk = TkIdle
    /\ sc = ScIdle
    /\ hb = HbIdle
    /\ sel = SelIdle
    /\ run \in {[RunIdle EXCEPT !.src = src, !.phase = "startup", !.stubborn = st] :
                  src \in RunSrcs, st \in BOOLEAN}

RECURSIVE TrailingFailures(_)
\* Number of failed probes since the last successful one.
TrailingFailures(h) ==
    IF h = <<>> \/ h[Len(h)] THEN 0
    ELSE 1 + TrailingFailures(SubSeq(h, 1, Len(h) - 1))

graceful_stop_kill(sent) == sent \o <<"TERM", "KILL">>

\* kill(pid, SIGTERM); child.wait()
graceful_stop(sent) == Append(sent, "TERM")

\* kill(pid, SIGTERM); sleep(2 s); kill(pid, SIGKILL); exit(1)
hard_stop(sent) == sent \o <<"TERM", "KILL">>

failures_after_keep(failures, healthy) == IF healthy THEN failures ELSE failures + 1

\* failures = 0 on success, failures += 1 on failure
failures_after(failures, healthy) == IF healthy THEN 0 ELSE failures + 1

\* What ends the start-up loop without a healthy probe.  monitoring.rs:
\* nothing (the loop exits the process at max_startup_timeout).
\* patroni_runner.rs: while startup_elapsed < startup_grace_period.
startup_done(src, elapsed) == src = "runner" /\ elapsed >= GraceTicks

\* The sleep(5 s) branch of the start-up loop.
RunStartupProbe ==
    /\ run.phase = "startup"
    /\ \E healthy \in BOOLEAN :
         /\ healthy => run.child = "up"
         /\ LET e == run.elapsed + 1
            IN IF healthy
               THEN run' = [run EXCEPT !.elapsed = e, !.phase = "steady",
                                       !.healthySeen = TRUE]
               ELSE IF run.src = "monitoring" /\ e >= MaxStartupTicks
               THEN run' = [run EXCEPT !.elapsed = e, !.phase = "exited", !.code = 1,
                                       !.events = @ \cup {"health_check_failed"},
                                       !.sent = hard_stop(@),
                                       !.child = "dead",
                                       !.why = "startup_timeout"]
               ELSE run' = [run EXCEPT !.elapsed = e,
                                       !.phase = IF startup_done(run.src, e)
                                                 THEN "steady" ELSE "startup"]
    /\ UNCHANGED <<etcdVars, wd, hap, tpl, rc, pb, yml, prs, dp, tk, sc, hb, sel>>

\* The sleep(health_check_interval) branch of the steady-state loop.
RunSteadyProbe ==
    /\ run.phase = "steady"
    /\ Len(run.hist) < MaxProbes
    /\ \E healthy \in BOOLEAN :
         /\ healthy => run.child = "up"
         /\ LET f == failures_after(run.failures, healthy)
            IN IF f >= MaxFailures
               THEN run' = [run EXCEPT !.failures = f, !.hist = Append(@, healthy),
                                       !.phase = "exited", !.code = 1,
                                       !.events = IF run.src = "monitoring"
                                                  THEN @ \cup {"health_check_failed"} ELSE @,
                                       !.sent = hard_stop(@),
                                       !.child = "dead",
                                       !.why = "max_failures"]
               ELSE run' = [run EXCEPT !.failures = f, !.hist = Append(@, healthy)]
    /\ UNCHANGED <<etcdVars, wd, hap, tpl, rc, pb, yml, prs, dp, tk, sc, hb, sel>>

\* sigterm.recv() or sigint.recv() in either loop.
RunSignal ==
    /\ run.phase \in {"startup", "steady"}
    /\ run' = [run EXCEPT !.phase = "draining", !.sent = graceful_stop(@),
                          !.why = "signal"]
    /\ UNCHANGED <<etcdVars, wd, hap, tpl, rc, pb, yml, prs, dp, tk, sc, hb, sel>>

\* child.wait() of the signal branch returns: return Ok(()).
RunDrained ==
    /\ run.phase = "draining"
    /\ run.child = "dead"
    /\ run' = [run EXCEPT !.phase = "exited", !.code = 0]
    /\ UNCHANGED <<etcdVars, wd, hap, tpl, rc, pb, yml, prs, dp, tk, sc, hb, sel>>

\* The child.wait() branch of either loop: the child has died on its own.
RunReap ==
    /\ run.phase \in {"startup", "steady"}
    /\ run.child = "dead"
    /\ run' = [run EXCEPT !.phase = "exited", !.code = 1,
                          !.events = IF run.src = "monitoring"
                                     THEN @ \cup {"process_died"} ELSE @,
                          !.why = "child_died"]
    /\ UNCHANGED <<etcdVars, wd, hap, tpl, rc, pb, yml, prs, dp, tk, sc, hb, sel>>

\* The agent exits on its own, with status 0, 1 or 2.
ChildDies ==
    /\ run.phase \in {"startup", "steady"}
    /\ run.child = "up"
    /\ \E c \in {0, 1, 2} : run' = [run EXCEPT !.child = "dead", !.childCode = c]
    /\ UNCHANGED <<etcdVars, wd, hap, tpl, rc, pb, yml, prs, dp, tk, sc, hb, sel>>

\* An agent that handles SIGTERM exits after receiving it.
ChildObeys ==
    /\ run.phase = "draining"
    /\ run.child = "up"
    /\ ~run.stubborn
    /\ run' = [run EXCEPT !.child = "dead"]
    /\ UNCHANGED <<etcdVars, wd, hap, tpl, rc, pb, yml, prs, dp, tk, sc, hb, sel>>

RunnerNext ==
    \/ RunStartupProbe
    \/ RunSteadyProbe
    \/ RunSignal
    \/ RunDrained
    \/ RunReap
    \/ ChildDies
    \/ ChildObeys

RunnerSpec == RunnerInit /\ [][RunnerNext]_vars

\* The supervisor and the agent keep taking the steps they can take.
RunnerFairSpec ==
    /\ RunnerInit
    /\ [][RunnerNext]_vars
    /\ WF_vars(RunStartupProbe)
    /\ WF_vars(RunSteadyProbe)
    /\ WF_vars(RunDrained)
    /\ WF_vars(RunReap)
    /\ WF_vars(ChildObeys)

\* ------------------------------------- the HAProxy supervisor's probe loop
\* run_monitoring_loop of src/haproxy/src/monitoring.rs.  hap.hist is the
\* sequence of the probe results so far: the count check_primary_backend
\* returned, or -1 when it returned Err.  hap.events counts the DcsUnavailable
\* events handed to the telemetry client.  hap.last is what the last request
\* for the stats page met: ok (the page), status (a response with an error
\* status, whose body holds no row; the code does not look at the status),
\* err (no response in time, or a body that cannot be read).  hap.child is
\* HAProxy: running, exited (with child_code) or signaled (no exit code).
PrimaryBackend == "postgresql_primary_backend"

\* Rows of the stats CSV: pxname, svname, status and the number of columns.
StatsRows ==
    {[px |-> PrimaryBackend, sv |-> "postgres-1", status |-> "UP", cols |-> 18],
     [px |-> PrimaryBackend, sv |-> "postgres-2", status |-> "DOWN", cols |-> 18],
     [px |-> PrimaryBackend, sv |-> "BACKEND", status |-> "UP", cols |-> 18],
     [px |-> "postgresql_replicas_backend", sv |-> "postgres-2", status |-> "UP", cols |-> 18],
     [px |-> PrimaryBackend, sv |-> "postgres-1", status |-> "UP", cols |-> 17]}

StatsBodies == UNION {[1..k -> StatsRows] : k \in 0..MaxBodyRows}

\* Rows of the primary backend, the summary row excluded, whose status
\* (column 17, counted from 0) is UP.
check_primary_backend(body) ==
    Cardinality({i \in 1..Len(body) :
                    /\ body[i].cols > 17
                    /\ body[i].px = PrimaryBackend
                    /\ body[i].sv # "BACKEND"
                    /\ body[i].status = "UP"})

alerted_after_stuck(alerted, res) == IF res < 0 THEN alerted ELSE alerted \/ res = 0

\* no_primary_alerted after a probe: unchanged on Err, true on a count of
\* zero, false on a count of one or more.
alerted_after(alerted, res) == IF res < 0 THEN alerted ELSE res = 0

HaproxyInit ==
    /\ EtcdInit
    /\ wd = WdIdle
    /\ run = RunIdle
    /\ tpl = TplIdle
    /\ rc = RcIdle
    /\ pb = PbIdle
    /\ yml = YmlIdle
    /\ prs = PrsIdle
    /\ dp = DpIdle
    /\ tk = TkIdle
    /\ sc = ScIdle
    /\ hb = HbIdle
    /\ sel = SelIdle
    /\ hap \in {[HapIdle EXCEPT !.phase = "loop"],
                [HapIdle EXCEPT !.phase = "wait", !.single = TRUE]}

\* One iteration of the loop with HAProxy still running: the probe, the
\* event, the flag.
HapTick ==
    /\ hap.phase = "loop"
    /\ Len(hap.hist) < MaxHapTicks
    /\ \E fetch \in {"ok", "status", "err"}, body \in StatsBodies :
         LET res == IF fetch = "err" THEN -1
                    ELSE IF fetch = "status" THEN check_primary_backend(<<>>)
                    ELSE check_primary_backend(body)
         IN  hap' = [hap EXCEPT
                       !.last = fetch,
                       !.hist = Append(@, res),
                       !.events = IF res = 0 /\ ~hap.alerted THEN @ + 1 ELSE @,
                       !.alerted = alerted_after(hap.alerted, res)]
    /\ UNCHANGED <<etcdVars, wd, run, tpl, rc, pb, yml, prs, dp, tk, sc, hb, sel>>

\* HAProxy exits: child.wait() in single-node mode, try_wait() in the loop;
\* the supervisor exits with status.code().unwrap_or(1), where a child
\* ended by a signal has no code.
HapChildExit ==
    /\ hap.phase \in {"loop", "wait"}
    /\ \/ \E c \in {0, 1, 2} :
            hap' = [hap EXCEPT !.phase = "exited", !.code = c, !.child = "exited",
                               !.child_code = c]
       \/ hap' = [hap EXCEPT !.phase = "exited", !.code = 1, !.child = "signaled"]
    /\ UNCHANGED <<etcdVars, wd, run, tpl, rc, pb, yml, prs, dp, tk, sc, hb, sel>>

\* try_wait() (or wait() in single-node mode) returns Err: exit(1), or Err
\* out of main, with HAProxy left as it is.
HapWaitError ==
    /\ hap.phase \in {"loop", "wait"}
    /\ hap' = [hap EXCEPT !.phase = "exited", !.code = 1]
    /\ UNCHANGED <<etcdVars, wd, run, tpl, rc, pb, yml, prs, dp, tk, sc, hb, sel>>

HaproxyNext ==
    \/ HapTick
    \/ HapChildExit
    \/ HapWaitError

HaproxySpec == HaproxyInit /\ [][HaproxyNext]_vars

\* --------------------------------- the HAProxy configuration generator
\* parse_nodes and generate_config of src/haproxy/src/nodes.rs and
\* template.rs (the same code is inline in src/haproxy/src/main.rs).  A
\* descriptor is the sequence of its comma-separated entries, an entry the
\* sequence of its colon-separated fields, a host name the sequence of its
\* dot-separated segments.  The rendered file is a sequence of lines; a line
\* is its keyword, the name and address of a server line, and the remaining
\* words.  The global, defaults, resolvers and stats sections, which hold
\* no backend, are left out.
NodeHosts ==
    {<<"postgres-1", "example", "internal">>,
     <<"postgres-2", "example", "internal">>,
     <<"db">>}
PgPorts == {"5432", "6432"}
AgentPorts == {"8008"}

NodeEntries ==
    UNION {{<<h, p>>, <<h, p, a>>, <<h, p, a, "x">>} :
              <<h, p, a>> \in NodeHosts \X PgPorts \X AgentPorts}

NodeDescriptors == UNION {[1..k -> NodeEntries] : k \in 1..MaxNodes}

\* Err if an entry has not three fields; else one node per entry, in order,
\* named by host.split('.').next().
parse_nodes(desc) ==
    IF \E i \in 1..Len(desc) : Len(desc[i]) # 3
    THEN [ok |-> FALSE, nodes |-> <<>>]
    ELSE [ok |-> TRUE,
          nodes |-> [i \in 1..Len(desc) |->
                       [name |-> Head(desc[i][1]), host |-> desc[i][1],
                        pg_port |-> desc[i][2], patroni_port |-> desc[i][3]]]]

ConfigLine(kw, words) ==
    [kw |-> kw, name |-> "", host |-> <<>>, port |-> "", words |-> words]

single_node_mode_never(nodes) == FALSE

\* nodes.len() == 1
single_node_mode(nodes) == Len(nodes) = 1

generate_server_entries(nodes, single) ==
    [i \in 1..Len(nodes) |->
       [kw |-> "server", name |-> nodes[i].name, host |-> nodes[i].host,
        port |-> nodes[i].pg_port,
        words |-> IF single
                  THEN <<"check", "resolvers", "railway", "resolve-prefer", "ipv4">>
                  ELSE <<"check", "port", nodes[i].patroni_port,
                         "resolvers", "railway", "resolve-prefer", "ipv4">>]]

http_check(uri) ==
    <<ConfigLine("option", <<"httpchk">>),
      ConfigLine("http-check", <<"send", "meth", "GET", "uri", uri>>),
      ConfigLine("http-check", <<"expect", "status", "200">>)>>

default_server ==
    <<ConfigLine("default-server",
                 <<"inter", "check_interval", "fall", "3", "rise", "2",
                   "on-marked-down", "shutdown-sessions">>)>>

generate_primary_backend(server_entries, single) ==
    <<ConfigLine("backend", <<"postgresql_primary_backend">>)>>
    \o (IF single THEN <<>> ELSE http_check("/primary"))
    \o default_server \o server_entries

generate_replica_backend(server_entries, single) ==
    <<ConfigLine("backend", <<"postgresql_replicas_backend">>),
      ConfigLine("balance", <<"roundrobin">>)>>
    \o (IF single THEN <<>> ELSE http_check("/replica"))
    \o default_server \o server_entries

generate_config(nodes) ==
    LET single == single_node_mode(nodes)
        server_entries == generate_server_entries(nodes, single)
    IN  <<ConfigLine("frontend", <<"postgresql_primary">>),
          ConfigLine("bind", <<"*:5432">>),
          ConfigLine("default_backend", <<"postgresql_primary_backend">>)>>
        \o generate_primary_backend(server_entries, single)
        \o <<ConfigLine("frontend", <<"postgresql_replicas">>),
             ConfigLine("bind", <<"*:5433">>),
             ConfigLine("default_backend", <<"postgresql_replicas_backend">>)>>
        \o generate_replica_backend(server_entries, single)

TemplateInit ==
    /\ EtcdInit
    /\ wd = WdIdle
    /\ run = RunIdle
    /\ hap = HapIdle
    /\ rc = RcIdle
    /\ pb = PbIdle
    /\ yml = YmlIdle
    /\ prs = PrsIdle
    /\ dp = DpIdle
    /\ tk = TkIdle
    /\ sc = ScIdle
    /\ hb = HbIdle
    /\ sel = SelIdle
    /\ tpl \in {[TplIdle EXCEPT !.phase = "input", !.desc = d] : d \in NodeDescriptors}

\* The generator's main: parse POSTGRES_NODES, fail on a malformed entry,
\* else render the file.
TplGenerate ==
    /\ tpl.phase = "input"
    /\ LET parsed == parse_nodes(tpl.desc)
       IN  tpl' = IF parsed.ok
                  THEN [tpl EXCEPT !.phase = "rendered", !.out = generate_config(parsed.nodes)]
                  ELSE [tpl EXCEPT !.phase = "error"]
    /\ UNCHANGED <<etcdVars, wd, run, hap, rc, pb, yml, prs, dp, tk, sc, hb, sel>>

TemplateNext == TplGenerate

TemplateSpec == TemplateInit /\ [][TemplateNext]_vars

\* ------------------------------------------- the on_role_change callback
\* main of src/postgres-patroni/src/bin/on_role_change.rs.  rc.args is the
\* argument vector after the program name; NonUnicode stands for an argument
\* that is not valid Unicode.  rc.telemetry is the fate of the request of
\* the detached thread: unsent when the process exits first.
NonUnicode == "<non-unicode>"

ArgVals ==
    {"on_role_change", "on_start", "master", "primary", "replica", "standby",
     "demoted", NonUnicode}

ArgVectors == UNION {[1..k -> ArgVals] : k \in 0..MaxArgs}

TelemetryOutcomes == {"unsent", "ok", "failed", "timeout"}

\* args.get(i).unwrap_or("")
arg_or_empty(args, i) == IF Len(args) >= i THEN args[i] ELSE ""

\* The match on the new role.
event_type(role) ==
    IF role \in {"master", "primary"} THEN "POSTGRES_HA_FAILOVER"
    ELSE IF role \in {"replica", "standby"} THEN "POSTGRES_HA_REJOINED"
    ELSE "POSTGRES_HA_ROLE_CHANGE"

RoleChangeInit ==
    /\ EtcdInit
    /\ wd = WdIdle
    /\ run = RunIdle
    /\ hap = HapIdle
    /\ tpl = TplIdle
    /\ pb = PbIdle
    /\ yml = YmlIdle
    /\ prs = PrsIdle
    /\ dp = DpIdle
    /\ tk = TkIdle
    /\ sc = ScIdle
    /\ hb = HbIdle
    /\ sel = SelIdle
    /\ rc \in {[RcIdle EXCEPT !.phase = "called", !.args = a] : a \in ArgVectors}

\* main up to the spawn of the sending thread, or to its exit when it does
\* not get that far.  env::args() panics while the vector is collected if an
\* argument is not valid Unicode, and a panic of the main thread ends the
\* process with status 101.
RcMain ==
    /\ rc.phase = "called"
    /\ LET action == arg_or_empty(rc.args, 1)
           role == arg_or_empty(rc.args, 2)
       IN  IF \E i \in 1..Len(rc.args) : rc.args[i] = NonUnicode
           THEN rc' = [rc EXCEPT !.phase = "exited", !.code = 101]
           ELSE IF action # "on_role_change"
           THEN rc' = [rc EXCEPT !.phase = "exited", !.code = 0]
           ELSE rc' = [rc EXCEPT !.phase = "spawned", !.event = event_type(role)]
    /\ UNCHANGED <<etcdVars, wd, run, hap, tpl, pb, yml, prs, dp, tk, sc, hb, sel>>

\* The detached thread builds its client and issues the POST, whose result
\* it discards.
RcSend ==
    /\ rc.phase = "spawned"
    /\ rc.telemetry = "none"
    /\ \E t \in TelemetryOutcomes \ {"unsent"} : rc' = [rc EXCEPT !.telemetry = t]
    /\ UNCHANGED <<etcdVars, wd, run, hap, tpl, pb, yml, prs, dp, tk, sc, hb, sel>>

\* The main thread calls std::process::exit(0) right after the spawn; it
\* does not join the thread.
RcExit ==
    /\ rc.phase = "spawned"
    /\ rc' = [rc EXCEPT !.phase = "exited", !.code = 0,
                        !.telemetry = IF @ = "none" THEN "unsent" ELSE @]
    /\ UNCHANGED <<etcdVars, wd, run, hap, tpl, pb, yml, prs, dp, tk, sc, hb, sel>>

RoleChangeNext ==
    \/ RcMain
    \/ RcSend
    \/ RcExit

RoleChangeSpec == RoleChangeInit /\ [][RoleChangeNext]_vars

\* ---------------------------------------------- the post-bootstrap script
\* main of src/postgres-patroni/src/bin/post_bootstrap.rs.  pb.file is the
\* state of /tmp/patroni.yml; pb.creds holds what the file gives for the four
\* values read_credentials requires (Absent: the key is not found);
\* pb.app_db says that an application database other than postgres is
\* configured, pb.app_grant that the application user is set and is not the
\* superuser.  pb.failed is the step at which the run stopped.
Absent == "<absent>"

PbFieldVals == {Absent, "", "set"}

PbFiles == {"absent", "unreadable", "ok"}

PbCreds == [repl_user : PbFieldVals, repl_pass : PbFieldVals,
            superuser : PbFieldVals, superuser_pass : PbFieldVals]

\* The steps that can fail for a reason outside the configuration file.
PbSteps == {"create_users", "db_exists", "create_db", "grant", "marker"}

PbEvent(type, phase) == [type |-> type, phase |-> phase]

\* read_credentials: Err if the file cannot be read or one of the four
\* authentication values is not found.
read_credentials_ok(file, creds) ==
    /\ file = "ok"
    /\ creds.repl_user # Absent
    /\ creds.repl_pass # Absent
    /\ creds.superuser # Absent
    /\ creds.superuser_pass # Absent

required_present_lax(creds) == TRUE

\* The is_empty() checks of main.
required_present(creds) ==
    /\ creds.repl_user # ""
    /\ creds.repl_pass # ""
    /\ creds.superuser # ""

\* The result of main when the step named fail fails if it is reached, and
\* the database query finds the database iff dbThere.
post_bootstrap(file, creds, app_db, app_grant, fail, dbThere) ==
    LET started == {PbEvent("bootstrap_started", "")}
        stop(step, evs) == [failed |-> step, events |-> started \cup evs,
                            marker |-> FALSE, code |-> 1]
    IN  IF file = "absent"
        THEN stop("read_config", {PbEvent("bootstrap_failed", "read_config")})
        ELSE IF ~read_credentials_ok(file, creds)
        THEN stop("read_credentials", {PbEvent("bootstrap_failed", "read_credentials")})
        ELSE IF ~required_present(creds)
        THEN stop("required_fields", {})
        ELSE IF fail = "create_users"
        THEN stop("create_users", {PbEvent("bootstrap_failed", "create_users")})
        ELSE IF app_db /\ fail = "db_exists"
        THEN stop("db_exists", {})
        ELSE IF app_db /\ ~dbThere /\ fail = "create_db"
        THEN stop("create_db", {})
        ELSE IF app_db /\ app_grant /\ fail = "grant"
        THEN stop("grant", {})
        ELSE IF fail = "marker"
        THEN stop("marker", {})
        ELSE [failed |-> "none",
              events |-> started \cup {PbEvent("bootstrap_completed", "")},
              marker |-> TRUE, code |-> 0]

PostBootstrapInit ==
    /\ EtcdInit
    /\ wd = WdIdle
    /\ run = RunIdle
    /\ hap = HapIdle
    /\ tpl = TplIdle
    /\ rc = RcIdle
    /\ yml = YmlIdle
    /\ prs = PrsIdle
    /\ dp = DpIdle
    /\ tk = TkIdle
    /\ sc = ScIdle
    /\ hb = HbIdle
    /\ sel = SelIdle
    /\ pb \in {[PbIdle EXCEPT !.phase = "called", !.file = f, !.creds = c,
                              !.app_db = d, !.app_grant = g] :
                 f \in PbFiles, c \in PbCreds, d \in BOOLEAN, g \in BOOLEAN}

PbMain ==
    /\ pb.phase = "called"
    /\ \E fail \in PbSteps \cup {"none"}, dbThere \in BOOLEAN :
         LET r == post_bootstrap(pb.file, pb.creds, pb.app_db, pb.app_grant, fail, dbThere)
         IN  pb' = [pb EXCEPT !.phase = "exited", !.failed = r.failed,
                              !.events = r.events, !.marker = r.marker,
                              !.code = r.code]
    /\ UNCHANGED <<etcdVars, wd, run, hap, tpl, rc, yml, prs, dp, tk, sc, hb, sel>>

PostBootstrapNext == PbMain

PostBootstrapSpec == PostBootstrapInit /\ [][PostBootstrapNext]_vars

\* ------------------------------------------- the agent configuration file
\* generate_patroni_config (patroni/yaml.rs, and inline in
\* bin/patroni_runner.rs) writes /tmp/patroni.yml; read_credentials of
\* bin/post_bootstrap.rs reads it back.  A string is the sequence of its
\* characters; the file is the sequence of its lines, a line its
\* indentation, the key in front of the first colon ("" for an empty line,
\* the whole text for a line without colon) and the text behind the colon.
CredChars == {"a", "\"", "'", " "}

CredStrings == UNION {[1..k -> CredChars] : k \in 0..MaxStrLen}

CredFields ==
    {"superuser", "superuser_pass", "repl_user", "repl_pass", "app_user",
     "app_pass", "app_db"}

\* The values of the fields that are not varied.
DefaultBundle ==
    [superuser |-> <<"s">>, superuser_pass |-> <<"t">>, repl_user |-> <<"r">>,
     repl_pass |-> <<"q">>, app_user |-> <<"u">>, app_pass |-> <<"v">>,
     app_db |-> <<"d">>]

YamlLine(indent, key, text) == [indent |-> indent, key |-> key, text |-> text]

\* key: "{value}"
Quoted(indent, key, value) == YamlLine(indent, key, <<" ", "\"">> \o value \o <<"\"">>)

generate_patroni_config(c) ==
    <<YamlLine(0, "scope", <<" ", "x">>),
      YamlLine(0, "name", <<" ", "x">>),
      YamlLine(0, "", <<>>),
      YamlLine(0, "restapi", <<>>),
      YamlLine(2, "listen", <<" ", "x">>),
      YamlLine(2, "connect_address", <<" ", "x">>),
      YamlLine(0, "", <<>>),
      YamlLine(0, "etcd3", <<>>),
      YamlLine(2, "hosts", <<" ", "x">>),
      YamlLine(0, "", <<>>),
      YamlLine(0, "bootstrap", <<>>),
      YamlLine(2, "dcs", <<>>),
      YamlLine(4, "ttl", <<" ", "x">>),
      YamlLine(4, "loop_wait", <<" ", "x">>),
      YamlLine(4, "retry_timeout", <<" ", "x">>),
      YamlLine(4, "postgresql", <<>>),
      YamlLine(6, "parameters", <<>>),
      YamlLine(8, "password_encryption", <<" ", "x">>),
      YamlLine(0, "", <<>>),
      YamlLine(2, "initdb", <<>>),
      YamlLine(4, "- encoding", <<" ", "x">>),
      YamlLine(4, "- username", <<" ">> \o c.superuser),
      YamlLine(0, "", <<>>),
      YamlLine(2, "pg_hba", <<>>),
      YamlLine(4, "- hostssl replication", <<>>),
      YamlLine(0, "", <<>>),
      YamlLine(2, "post_bootstrap", <<" ", "x">>),
      YamlLine(0, "", <<>>),
      YamlLine(0, "postgresql", <<>>),
      YamlLine(2, "listen", <<" ", "x">>),
      YamlLine(2, "data_dir", <<" ", "x">>),
      YamlLine(2, "callbacks", <<>>),
      YamlLine(4, "on_role_change", <<" ", "x">>),
      YamlLine(2, "basebackup", <<>>),
      YamlLine(4, "checkpoint", <<" ", "x">>),
      YamlLine(2, "authentication", <<>>),
      YamlLine(4, "replication", <<>>),
      Quoted(6, "username", c.repl_user),
      Quoted(6, "password", c.repl_pass),
      YamlLine(4, "superuser", <<>>),
      Quoted(6, "username", c.superuser),
      Quoted(6, "password", c.superuser_pass),
      YamlLine(2, "app_user", <<>>),
      Quoted(4, "username", c.app_user),
      Quoted(4, "password", c.app_pass),
      Quoted(4, "database", c.app_db),
      YamlLine(2, "parameters", <<>>),
      YamlLine(4, "unix_socket_directories", <<" ", "x">>),
      YamlLine(4, "ssl", <<" ", "x">>)>>

RECURSIVE trim_start_matches(_, _)
trim_start_matches(str, ch) ==
    IF str # <<>> /\ Head(str) = ch THEN trim_start_matches(Tail(str), ch) ELSE str

RECURSIVE trim_end_matches(_, _)
trim_end_matches(str, ch) ==
    IF str # <<>> /\ str[Len(str)] = ch
    THEN trim_end_matches(SubSeq(str, 1, Len(str) - 1), ch)
    ELSE str

\* The text behind the colon, trimmed, then stripped of its leading and
\* trailing double quotes, then of its leading and trailing single quotes.
parse_yaml_value(text) ==
    LET value == trim_end_matches(trim_start_matches(text, " "), " ")
    IN  trim_end_matches(
          trim_start_matches(
            trim_end_matches(trim_start_matches(value, "\""), "\""), "'"), "'")

NoValue == [some |-> FALSE, val |-> <<>>]

RECURSIVE extract_yaml_value_from(_, _, _, _, _, _)
\* The loop of extract_yaml_value from line i on.
extract_yaml_value_from(content, i, section, key, in_section, section_indent) ==
    IF i > Len(content) THEN NoValue
    ELSE LET line == content[i]
         IN  IF line.key = section
             THEN extract_yaml_value_from(content, i + 1, section, key, TRUE, line.indent)
             ELSE IF in_section /\ line.key # "" /\ line.indent <= section_indent
             THEN extract_yaml_value_from(content, i + 1, section, key, FALSE, section_indent)
             ELSE IF in_section /\ line.key = key
             THEN [some |-> TRUE, val |-> parse_yaml_value(line.text)]
             ELSE extract_yaml_value_from(content, i + 1, section, key, in_section, section_indent)

extract_yaml_value(content, section, key) ==
    extract_yaml_value_from(content, 1, section, key, FALSE, 0)

RECURSIVE extract_nested_value_from(_, _, _, _, _, _, _, _, _)
\* The loop of extract_nested_value from line i on.
extract_nested_value_from(content, i, section1, section2, key, in1, indent1, in2, indent2) ==
    IF i > Len(content) THEN NoValue
    ELSE LET line == content[i]
         IN  IF line.key = section1
             THEN extract_nested_value_from(content, i + 1, section1, section2, key,
                                            TRUE, line.indent, in2, indent2)
             ELSE IF ~in1
             THEN extract_nested_value_from(content, i + 1, section1, section2, key,
                                            in1, indent1, in2, indent2)
             ELSE IF line.key # "" /\ line.indent <= indent1
             THEN extract_nested_value_from(content, i + 1, section1, section2, key,
                                            FALSE, indent1, FALSE, indent2)
             ELSE IF line.key = section2
             THEN extract_nested_value_from(content, i + 1, section1, section2, key,
                                            in1, indent1, TRUE, line.indent)
             ELSE IF ~in2
             THEN extract_nested_value_from(content, i + 1, section1, section2, key,
                                            in1, indent1, in2, indent2)
             ELSE IF line.key # "" /\ line.indent <= indent2
             THEN extract_nested_value_from(content, i + 1, section1, section2, key,
                                            in1, indent1, FALSE, indent2)
             ELSE IF line.key = key
             THEN [some |-> TRUE, val |-> parse_yaml_value(line.text)]
             ELSE extract_nested_value_from(content, i + 1, section1, section2, key,
                                            in1, indent1, in2, indent2)

extract_nested_value(content, section1, section2, key) ==
    extract_nested_value_from(content, 1, section1, section2, key, FALSE, 0, FALSE, 0)

\* Err if one of the four authentication values is not found; the three
\* application values default to the empty string.
read_credentials(content) ==
    LET ru == extract_nested_value(content, "authentication", "replication", "username")
        rp == extract_nested_value(content, "authentication", "replication", "password")
        su == extract_nested_value(content, "authentication", "superuser", "username")
        sp == extract_nested_value(content, "authentication", "superuser", "password")
        au == extract_yaml_value(content, "app_user", "username")
        ap == extract_yaml_value(content, "app_user", "password")
        ad == extract_yaml_value(content, "app_user", "database")
    IN  [ok |-> ru.some /\ rp.some /\ su.some /\ sp.some,
         creds |-> [superuser |-> su.val, superuser_pass |-> sp.val,
                    repl_user |-> ru.val, repl_pass |-> rp.val,
                    app_user |-> au.val, app_pass |-> ap.val, app_db |-> ad.val]]

YamlInit ==
    /\ EtcdInit
    /\ wd = WdIdle
    /\ run = RunIdle
    /\ hap = HapIdle
    /\ tpl = TplIdle
    /\ rc = RcIdle
    /\ pb = PbIdle
    /\ yml \in {[YmlIdle EXCEPT !.phase = "input",
                                !.bundle = [DefaultBundle EXCEPT ![f] = v]] :
                  f \in CredFields, v \in CredStrings}
    /\ prs = PrsIdle
    /\ dp = DpIdle
    /\ tk = TkIdle
    /\ sc = ScIdle
    /\ hb = HbIdle
    /\ sel = SelIdle

\* The runner renders the configuration and writes /tmp/patroni.yml.
YmlWrite ==
    /\ yml.phase = "input"
    /\ yml' = [yml EXCEPT !.phase = "written",
                          !.content = generate_patroni_config(yml.bundle)]
    /\ UNCHANGED <<etcdVars, wd, run, hap, tpl, rc, pb, prs, dp, tk, sc, hb, sel>>

\* Post-bootstrap reads the credentials from /tmp/patroni.yml.
YmlRead ==
    /\ yml.phase = "written"
    /\ LET r == read_credentials(yml.content)
       IN  yml' = [yml EXCEPT !.phase = "read", !.ok = r.ok, !.got = r.creds]
    /\ UNCHANGED <<etcdVars, wd, run, hap, tpl, rc, pb, prs, dp, tk, sc, hb, sel>>

YamlNext ==
    \/ YmlWrite
    \/ YmlRead

YamlSpec == YamlInit /\ [][YamlNext]_vars

\* ------------------------------------------- the start of the Patroni runner
\* main of src/postgres-patroni/src/bin/patroni_runner.rs up to the spawn of
\* the agent.  Config::from_env exists twice: in bin/patroni_runner.rs (src
\* "runner") and in patroni/config.rs (src "config").  prs.env holds the
\* values of PATRONI_TTL, PATRONI_LOOP_WAIT and PATRONI_RETRY_TIMEOUT (-1:
\* not set); prs.hba is the state of <data_dir>/pg_hba.conf: absent, plain
\* (no replication rule), has_repl, prepended.
PrsSrcs == {"runner", "config"}

TimingVals == {-1, 10, 20, 40}

HbaStates == {"absent", "plain", "has_repl"}

\* env::var(..).unwrap_or(default): the three values are strings that are
\* neither parsed nor compared.
timing_from_env(src, env) ==
    [ttl |-> IF env.ttl # -1 THEN env.ttl ELSE IF src = "runner" THEN 30 ELSE 40,
     loop_wait |-> IF env.loop_wait # -1 THEN env.loop_wait ELSE 10,
     retry_timeout |-> IF env.retry_timeout # -1 THEN env.retry_timeout ELSE 10]

\* Nothing if the file is missing or already has a rule for the replication
\* user; else the rules are put in front of the content.
update_pg_hba_for_replication(hba) == IF hba = "plain" THEN "prepended" ELSE hba

PatroniStartInit ==
    /\ EtcdInit
    /\ wd = WdIdle
    /\ run = RunIdle
    /\ hap = HapIdle
    /\ tpl = TplIdle
    /\ rc = RcIdle
    /\ pb = PbIdle
    /\ yml = YmlIdle
    /\ prs \in {[PrsIdle EXCEPT !.phase = "called", !.src = src, !.env = e,
                                !.adopt = a, !.pg_control = d, !.marker = m,
                                !.hba = h] :
                  src \in PrsSrcs,
                  e \in [ttl : TimingVals, loop_wait : TimingVals, retry_timeout : TimingVals],
                  a \in BOOLEAN, d \in BOOLEAN, m \in BOOLEAN, h \in HbaStates}
    /\ dp = DpIdle
    /\ tk = TkIdle
    /\ sc = ScIdle
    /\ hb = HbIdle
    /\ sel = SelIdle

\* Config::from_env, the auth-file update, the marker, the configuration
\* file, the spawn.
PrsMain ==
    /\ prs.phase = "called"
    /\ prs' = [prs EXCEPT
                 !.phase = "spawned",
                 !.cfg = timing_from_env(prs.src, prs.env),
                 !.hba = IF prs.adopt THEN update_pg_hba_for_replication(@) ELSE @,
                 !.marker = @ \/ (prs.adopt /\ prs.pg_control /\ ~prs.marker),
                 !.written = TRUE,
                 !.spawned = TRUE]
    /\ UNCHANGED <<etcdVars, wd, run, hap, tpl, rc, pb, yml, dp, tk, sc, hb, sel>>

PatroniStartNext == PrsMain

PatroniStartSpec == PatroniStartInit /\ [][PatroniStartNext]_vars

\* ------------------------------- the etcd supervisor and a free-form descriptor
\* parse_initial_cluster and the first attempt of main (src/etcd/src/main.rs)
\* on a descriptor whose entries need not be well formed.  An entry is its
\* text in front of the first '=' (name), the text behind it (url) and
\* whether it has a '=' at all.  With the helpers of config.rs (impl
\* "modular") every use of the descriptor goes through
\* parse_initial_cluster(..)?, the first of them before the retry loop.
DescriptorEntries ==
    {[name |-> "a", url |-> "http://a:2380", eq |-> TRUE],
     [name |-> "b", url |-> "http://b:2380", eq |-> TRUE],
     [name |-> "garbage", url |-> "", eq |-> FALSE],
     [name |-> "", url |-> "http://c:2380", eq |-> TRUE],
     [name |-> "c", url |-> "", eq |-> TRUE]}

FreeDescriptors == UNION {[1..k -> DescriptorEntries] : k \in 1..MaxEntries}

\* An entry not of the form name=url with non-empty name and url.
MalformedEntry(e) == ~e.eq \/ e.name = "" \/ e.url = ""

\* Position of a name in the lexicographic order.
NameRank == [n \in {"", "a", "b", "c", "garbage"} |->
               IF n = "" THEN 0 ELSE IF n = "a" THEN 1 ELSE IF n = "b" THEN 2
               ELSE IF n = "c" THEN 3 ELSE 4]

\* main.rs: filter_map keeps every entry that has a '=' and drops the
\* others; config.rs: Err unless every entry has a '=' and a non-empty name
\* and url.
parse_initial_cluster(im, desc) ==
    LET entries == {desc[i] : i \in 1..Len(desc)}
    IN  IF im = "main"
        THEN [ok |-> TRUE, names |-> {e.name : e \in {x \in entries : x.eq}}]
        ELSE IF \E e \in entries : MalformedEntry(e)
        THEN [ok |-> FALSE, names |-> {}]
        ELSE [ok |-> TRUE, names |-> {e.name : e \in entries}]

\* cluster.keys().min().unwrap_or_default()
bootstrap_leader(names) ==
    IF names = {} THEN ""
    ELSE CHOOSE n \in names : \A m \in names : NameRank[n] <= NameRank[m]

\* The outcome of the first attempt: peerHealthy says that a peer of the
\* parsed descriptor answers the health probe, addOk that member add
\* succeeds.
first_attempt(im, desc, me, mk, peerHealthy, addOk) ==
    LET parsed == parse_initial_cluster(im, desc)
        leading == me = bootstrap_leader(parsed.names)
        fatal == [spawned |-> FALSE, state |-> "none", ops |-> {},
                  retried |-> FALSE, code |-> 1]
        retry(ops) == [spawned |-> FALSE, state |-> "none", ops |-> ops,
                       retried |-> TRUE, code |-> -1]
        spawn(st, ops) == [spawned |-> TRUE, state |-> st, ops |-> ops,
                           retried |-> FALSE, code |-> -1]
    IN  IF ~parsed.ok THEN fatal
        ELSE IF mk THEN spawn("existing", {})
        ELSE IF leading
        THEN IF peerHealthy
             THEN IF addOk THEN spawn("existing", {"remove", "add"})
                  ELSE retry({"remove", "add"})
             ELSE spawn("new", {})
        ELSE IF peerHealthy
        THEN IF addOk THEN spawn("existing", {"add"}) ELSE retry({"add"})
        ELSE retry({})

DescriptorInit ==
    /\ EtcdInit
    /\ wd = WdIdle
    /\ run = RunIdle
    /\ hap = HapIdle
    /\ tpl = TplIdle
    /\ rc = RcIdle
    /\ pb = PbIdle
    /\ yml = YmlIdle
    /\ prs = PrsIdle
    /\ dp \in {[DpIdle EXCEPT !.phase = "start", !.desc = d, !.me = n, !.marker = m] :
                 d \in FreeDescriptors, n \in {"a", "b"}, m \in BOOLEAN}
    /\ tk = TkIdle
    /\ sc = ScIdle
    /\ hb = HbIdle
    /\ sel = SelIdle

\* main from its start to the spawn of the daemon, the retry or the exit of
\* the first attempt.
DpMain ==
    /\ dp.phase = "start"
    /\ \E peerHealthy \in BOOLEAN, addOk \in BOOLEAN :
         /\ peerHealthy =>
               \E n \in parse_initial_cluster(impl, dp.desc).names : n # dp.me
         /\ LET r == first_attempt(impl, dp.desc, dp.me, dp.marker, peerHealthy, addOk)
            IN  dp' = [dp EXCEPT !.phase = "done", !.spawned = r.spawned,
                                 !.state = r.state, !.ops = r.ops,
                                 !.retried = r.retried, !.code = r.code]
    /\ UNCHANGED <<etcdVars, wd, run, hap, tpl, rc, pb, yml, prs, tk, sc, hb, sel>>

DescriptorNext == DpMain

DescriptorSpec == DescriptorInit /\ [][DescriptorNext]_vars

\* --------------------------------------- the tasks of one etcd supervisor
\* main (src/etcd/src/main.rs 736-793) and the watchdog it spawns with
\* tokio::spawn, step by step.  tk.main: waiting (in child.wait()), checking
\* (the daemon has exited, the watchdog is aborted, the marker is about to
\* be tested), wiping, done (the attempt is over), exited.  tk.watchdog:
\* sleeping, probing, writing (awaiting fs::write), cancelled.  tokio's
\* fs::write hands the write to a blocking thread: tk.write is inflight from
\* then until the file is written, whatever happens to the task that awaits
\* it.
TaskInit ==
    /\ EtcdInit
    /\ wd = WdIdle
    /\ run = RunIdle
    /\ hap = HapIdle
    /\ tpl = TplIdle
    /\ rc = RcIdle
    /\ pb = PbIdle
    /\ yml = YmlIdle
    /\ prs = PrsIdle
    /\ dp = DpIdle
    /\ tk \in {[TkIdle EXCEPT !.main = "waiting", !.watchdog = "sleeping",
                              !.data = TRUE, !.jl = j, !.round = 1] :
                 j \in BOOLEAN}
    /\ sc = ScIdle
    /\ hb = HbIdle
    /\ sel = SelIdle

\* sleep(5 s) is over.
TkWake ==
    /\ tk.watchdog = "sleeping"
    /\ tk.ticks < MaxTicks
    /\ tk' = [tk EXCEPT !.watchdog = "probing", !.ticks = @ + 1]
    /\ UNCHANGED <<etcdVars, wd, run, hap, tpl, rc, pb, yml, prs, dp, sc, hb, sel>>

\* The rest of the iteration: the probe (which a peer can answer), the
\* promotion, the test of the marker, the start of the write.
TkProbe ==
    /\ tk.watchdog = "probing"
    /\ \E healthy \in BOOLEAN, promoteOk \in BOOLEAN :
         LET p == tk.promoted \/ (healthy /\ tk.jl /\ promoteOk)
             writes == healthy /\ ~tk.marker /\ (~tk.jl \/ p)
         IN  tk' = [tk EXCEPT !.promoted = p,
                              !.watchdog = IF writes THEN "writing" ELSE "sleeping",
                              !.write = IF writes THEN "inflight" ELSE @]
    /\ UNCHANGED <<etcdVars, wd, run, hap, tpl, rc, pb, yml, prs, dp, sc, hb, sel>>

\* The blocking thread writes the marker; a watchdog that awaits it goes on.
TkWriteDone ==
    /\ tk.write = "inflight"
    /\ tk' = [tk EXCEPT !.write = "none", !.marker = TRUE,
                        !.watchdog = IF @ = "writing" THEN "sleeping" ELSE @]
    /\ UNCHANGED <<etcdVars, wd, run, hap, tpl, rc, pb, yml, prs, dp, sc, hb, sel>>

\* The daemon exits: child.wait() returns, main aborts the watchdog; a
\* clean exit ends main.
TkChildExit ==
    /\ tk.main = "waiting"
    /\ \E clean \in BOOLEAN :
         tk' = [tk EXCEPT !.watchdog = "cancelled",
                          !.main = IF clean THEN "exited" ELSE "checking"]
    /\ UNCHANGED <<etcdVars, wd, run, hap, tpl, rc, pb, yml, prs, dp, sc, hb, sel>>

\* Path::new(&marker_path).exists()
TkCheck ==
    /\ tk.main = "checking"
    /\ tk' = [tk EXCEPT !.main = IF tk.marker THEN "done" ELSE "wiping"]
    /\ UNCHANGED <<etcdVars, wd, run, hap, tpl, rc, pb, yml, prs, dp, sc, hb, sel>>

\* Every entry of the data directory is removed.
TkWipe ==
    /\ tk.main = "wiping"
    /\ tk' = [tk EXCEPT !.main = "done", !.data = FALSE, !.marker = FALSE]
    /\ UNCHANGED <<etcdVars, wd, run, hap, tpl, rc, pb, yml, prs, dp, sc, hb, sel>>

\* The next attempt: the daemon is spawned again, with a new watchdog.
TkRespawn ==
    /\ tk.main = "done"
    /\ tk.round < MaxRounds
    /\ tk' = [tk EXCEPT !.main = "waiting", !.watchdog = "sleeping",
                        !.data = TRUE, !.promoted = FALSE, !.round = @ + 1]
    /\ UNCHANGED <<etcdVars, wd, run, hap, tpl, rc, pb, yml, prs, dp, sc, hb, sel>>

TaskNext ==
    \/ TkWake
    \/ TkProbe
    \/ TkWriteDone
    \/ TkChildExit
    \/ TkCheck
    \/ TkWipe
    \/ TkRespawn

TaskSpec == TaskInit /\ [][TaskNext]_vars

\* ------------------------------------- the entrypoint's certificate check
\* check_and_generate_ssl of src/postgres-patroni/src/bin/postgres_wrapper.rs
\* with is_valid_x509v3_cert and cert_expires_within of lib.rs.  sc.cert is
\* the state of server.crt: missing, garbage (openssl cannot read it),
\* no_san (readable, without DNS:localhost), valid; sc.left the days until
\* its notAfter, both as the check finds them; sc.valid_timeout and
\* sc.expiry_timeout say that the check takes longer than its 30 s;
\* sc.regenerated that the init-ssl script was run, sc.init_ok that it
\* succeeds.
CertStates == {"missing", "garbage", "no_san", "valid"}

Lifetimes == {-1, 0, 29, 31}

\* Days of the thresholds a caller can pass; the entrypoint passes 30.
Thresholds == {0, 1, 30, 365}

\* false if the file is missing, openssl fails or its output has no
\* DNS:localhost.
is_valid_x509v3_cert(cert) == cert = "valid"

cert_expires_within_never(cert, left, days) == FALSE

\* true if the file is missing; else true unless openssl x509 -checkend
\* exits with 0.
cert_expires_within(cert, left, days) ==
    IF cert = "missing" THEN TRUE
    ELSE IF cert = "garbage" THEN TRUE
    ELSE left < days

\* Whether check_and_generate_ssl runs the init-ssl script.
regenerates(cert, left, valid_timeout, expiry_timeout) ==
    IF cert = "missing" THEN TRUE
    ELSE IF ~(IF valid_timeout THEN FALSE ELSE is_valid_x509v3_cert(cert)) THEN TRUE
    ELSE IF expiry_timeout THEN TRUE ELSE cert_expires_within(cert, left, 30)

CertInit ==
    /\ EtcdInit
    /\ wd = WdIdle
    /\ run = RunIdle
    /\ hap = HapIdle
    /\ tpl = TplIdle
    /\ rc = RcIdle
    /\ pb = PbIdle
    /\ yml = YmlIdle
    /\ prs = PrsIdle
    /\ dp = DpIdle
    /\ tk = TkIdle
    /\ sc \in {[ScIdle EXCEPT !.phase = "called", !.cert = c, !.left = l,
                              !.valid_timeout = tv, !.expiry_timeout = te,
                              !.init_ok = ok] :
                 c \in CertStates, l \in Lifetimes, tv \in BOOLEAN,
                 te \in BOOLEAN, ok \in BOOLEAN}
    /\ hb = HbIdle
    /\ sel = SelIdle

ScCheck ==
    /\ sc.phase = "called"
    /\ LET regen == regenerates(sc.cert, sc.left, sc.valid_timeout, sc.expiry_timeout)
       IN  sc' = [sc EXCEPT !.phase = "done",
                            !.regenerated = regen,
                            !.code = IF regen /\ ~sc.init_ok THEN 1 ELSE 0]
    /\ UNCHANGED <<etcdVars, wd, run, hap, tpl, rc, pb, yml, prs, dp, tk, hb, sel>>

CertNext == ScCheck

CertSpec == CertInit /\ [][CertNext]_vars

\* ------------------------------------- the auth file of an adopted volume
\* update_pg_hba_for_replication (src/postgres-patroni/src/bin/patroni_runner.rs
\* 199-257 and src/postgres-patroni/src/patroni/yaml.rs 111-152) called once
\* per start of the runner on the same data directory.  A text is a sequence
\* of tokens: the word "replication", a space, a tab, the characters of user
\* names, and the literal pieces of the rules the function writes, none of
\* which holds a part of "replication".  hb.orig is pg_hba.conf before the
\* first call, hb.file after the last one, hb.mode the file's mode.
HbaSrcs == {"runner", "yaml"}

UserChars == {"u", "v"}

HbaChars == {"replication", " ", "\t"} \cup UserChars

ReplUsers == UNION {[1..k -> UserChars] : k \in 0..MaxStrLen}

HbaContents == UNION {[1..k -> HbaChars] : k \in 0..MaxHbaLen}

NoHba == [exists |-> FALSE, content |-> <<>>]

\* str::contains for a non-empty pattern.
contains(text, pat) ==
    \E i \in 1..(Len(text) - Len(pat) + 1) : SubSeq(text, i, i + Len(pat) - 1) = pat

hba_has_rule_never(content, user) == FALSE

\* content.contains("replication <user>") || content.contains("replication\t<user>")
hba_has_rule(content, user) ==
    \/ contains(content, <<"replication", " ">> \o user)
    \/ contains(content, <<"replication", "\t">> \o user)

\* The text of new_entries: a comment line, four rules and an empty line.
new_entries(src, user) ==
    LET rule(kind, net) ==
            <<kind, "replication", " ">> \o user \o <<" ", net, " scram-sha-256\n">>
    IN  <<IF src = "runner"
          THEN "# Replication entries added by Patroni migration for user "
          ELSE "# Replication entries for ">> \o user \o <<"\n">>
        \o rule("hostssl ", "0.0.0.0/0") \o rule("hostssl ", "::/0")
        \o rule("host ", "0.0.0.0/0") \o rule("host ", "::/0")
        \o <<"\n">>

\* The file and its mode after one call.
update_pg_hba(src, user, file, mode) ==
    IF ~file.exists THEN [file |-> file, mode |-> mode]
    ELSE IF hba_has_rule(file.content, user) THEN [file |-> file, mode |-> mode]
    ELSE [file |-> [exists |-> TRUE, content |-> new_entries(src, user) \o file.content],
          mode |-> "0600"]

HbaInit ==
    /\ EtcdInit
    /\ wd = WdIdle
    /\ run = RunIdle
    /\ hap = HapIdle
    /\ tpl = TplIdle
    /\ rc = RcIdle
    /\ pb = PbIdle
    /\ yml = YmlIdle
    /\ prs = PrsIdle
    /\ dp = DpIdle
    /\ tk = TkIdle
    /\ sc = ScIdle
    /\ hb \in {[HbIdle EXCEPT !.phase = "ready", !.src = src, !.user = u,
                              !.orig = f, !.file = f] :
                 src \in HbaSrcs, u \in ReplUsers,
                 f \in {NoHba} \cup {[exists |-> TRUE, content |-> c] : c \in HbaContents}}
    /\ sel = SelIdle

\* One start of the runner with the adopt flag set.
HbCall ==
    /\ hb.phase = "ready"
    /\ hb.calls < MaxCalls
    /\ LET r == update_pg_hba(hb.src, hb.user, hb.file, hb.mode)
       IN  hb' = [hb EXCEPT !.file = r.file, !.mode = r.mode, !.calls = @ + 1]
    /\ UNCHANGED <<etcdVars, wd, run, hap, tpl, rc, pb, yml, prs, dp, tk, sc, sel>>

HbaNext == HbCall

HbaSpec == HbaInit /\ [][HbaNext]_vars

\* --------------------------- one attempt's parameter selection, call by call
\* The head of the retry loop of src/etcd/src/main.rs (617-734) and
\* bootstrap_as_leader / bootstrap_as_follower of src/etcd/src/bootstrap.rs,
\* run on the same environment sel.inp: the node is the bootstrap leader or
\* not, the marker exists or not, the remote peers p and q (p is the
\* bootstrap leader when the node is not) answer endpoint health as
\* ans.p and ans.q, the descriptor map iterates in order, the peer lists the
\* node (by name and peer URL, by peer URL only) or not, data is the state of
\* the data directory, and list1, rm, add, list2 say whether the first
\* member list, member remove, member add and the member list of
\* get_current_cluster exit with 0; out_line says that the output of member
\* add holds a non-empty ETCD_INITIAL_CLUSTER.  The result of a selection is
\* the sequence of CLI calls and wipes it issued, its outcome (new, existing,
\* learner, retry, error: propagated with `?`), where initial_cluster comes
\* from, the peer used and the data directory afterwards.
SelAnswers == {"healthy", "unhealthy", "spawn_err"}

SelInputs ==
    [leader : BOOLEAN, marker : BOOLEAN, ans : [p : SelAnswers, q : SelAnswers],
     order : {<<"p", "q">>, <<"q", "p">>}, listed : {"no", "name", "url"},
     data : DataStates, list1 : BOOLEAN, rm : BOOLEAN, add : BOOLEAN,
     out_line : BOOLEAN, list2 : BOOLEAN]

Sel(calls, out, ic, e, d) ==
    [done |-> TRUE, calls |-> calls, out |-> out, ic |-> ic, via |-> e, data |-> d]

\* The result of one health probe is an error: etcdctl_probe(..)? in
\* bootstrap.rs; etcdctl(..).is_ok() in main.rs has no such result.
probe_is_error(im, answer) == im = "modular" /\ answer = "spawn_err"

RECURSIVE probe_in_order(_, _, _, _)
\* check_existing_cluster: the remote peers in the map's order.
probe_in_order(im, ans, peers, calls) ==
    IF peers = <<>> THEN [err |-> FALSE, found |-> "none", calls |-> calls]
    ELSE LET x == Head(peers)
             c == Append(calls, <<"health", x>>)
         IN  IF ans[x] = "healthy" THEN [err |-> FALSE, found |-> x, calls |-> c]
             ELSE IF probe_is_error(im, ans[x])
             THEN [err |-> TRUE, found |-> "none", calls |-> c]
             ELSE probe_in_order(im, ans, Tail(peers), c)

wait_for_peer_q_first(im, ans, k, calls) ==
    IF ans.q = "healthy" THEN [found |-> "q", calls |-> Append(calls, <<"health", "q">>)]
    ELSE IF ans.p = "healthy"
    THEN [found |-> "p", calls |-> calls \o << <<"health", "q">>, <<"health", "p">> >>]
    ELSE [found |-> "none", calls |-> calls \o << <<"health", "q">>, <<"health", "p">> >>]

RECURSIVE wait_for_peer(_, _, _, _)
\* wait_for_any_healthy_peer with k polls left: the bootstrap leader p
\* first, then the other peer; an error ends the wait.
wait_for_peer(im, ans, k, calls) ==
    IF k = 0 THEN [found |-> "none", calls |-> calls]
    ELSE LET c1 == Append(calls, <<"health", "p">>)
             c2 == Append(c1, <<"health", "q">>)
         IN  IF ans.p = "healthy" THEN [found |-> "p", calls |-> c1]
             ELSE IF probe_is_error(im, ans.p) THEN [found |-> "none", calls |-> c1]
             ELSE IF ans.q = "healthy" THEN [found |-> "q", calls |-> c2]
             ELSE IF probe_is_error(im, ans.q) THEN [found |-> "none", calls |-> c2]
             ELSE wait_for_peer(im, ans, k - 1, c2)

\* remove_stale_self against e: member list, then member remove of the
\* first entry with the node's name or peer URL.
remove_stale_self(inp, e, calls) ==
    LET c1 == Append(calls, <<"list", e>>)
    IN  IF ~inp.list1 THEN [ok |-> FALSE, calls |-> c1]
        ELSE IF inp.listed = "no" THEN [ok |-> TRUE, calls |-> c1]
        ELSE [ok |-> inp.rm, calls |-> Append(c1, <<"remove", e>>)]

\* member add --learner against e and the descriptor taken from its output
\* or from get_current_cluster; failed is the outcome of a failing
\* get_current_cluster.
member_add_learner(inp, e, calls, d, failed) ==
    LET c1 == Append(calls, <<"add", e>>)
        c2 == Append(c1, <<"list", e>>)
    IN  IF ~inp.add THEN Sel(c1, "retry", "none", e, d)
        ELSE IF inp.out_line THEN Sel(c1, "learner", "add_output", e, d)
        ELSE IF inp.list2 THEN Sel(c2, "learner", "member_list", e, d)
        ELSE Sel(c2, failed, "none", e, d)

add_self_calls_keep(im, inp, e, calls) ==
    member_add_learner(inp, e, Append(calls, <<"list", e>>), inp.data, "retry")

\* add_self_to_cluster against the healthy peer e, call by call.
add_self_calls(im, inp, e, calls) ==
    LET c1 == Append(calls, <<"list", e>>)
        r == remove_stale_self(inp, e, c1)
        c2 == Append(c1, <<"list", e>>)
    IN  IF ~inp.list1 THEN Sel(c1, "retry", "none", e, inp.data)
        ELSE IF inp.listed = "no" THEN member_add_learner(inp, e, c1, inp.data, "retry")
        ELSE IF has_local_data(im, inp.data)
        THEN IF inp.list2 THEN Sel(c2, "learner", "member_list", e, inp.data)
             ELSE Sel(c2, "retry", "none", e, inp.data)
        ELSE IF ~r.ok THEN Sel(r.calls, "retry", "none", e, inp.data)
        ELSE member_add_learner(inp, e, Append(r.calls, <<"wipe", "self">>),
                                Wiped(inp.data), "retry")

bootstrap_as_leader_strict(im, inp) ==
    LET ce == probe_in_order(im, inp.ans, inp.order, <<>>)
        r == remove_stale_self(inp, ce.found, ce.calls)
    IN  IF inp.marker THEN Sel(<<>>, "existing", "descriptor", "none", inp.data)
        ELSE IF ce.err THEN Sel(ce.calls, "error", "none", "none", inp.data)
        ELSE IF ce.found # "none" /\ ~r.ok
        THEN Sel(r.calls, "retry", "none", ce.found, inp.data)
        ELSE IF ce.found # "none"
        THEN member_add_learner(inp, ce.found, r.calls, inp.data, "error")
        ELSE Sel(ce.calls, "new", "self", "none", inp.data)

\* The leader branch of the loop head / bootstrap_as_leader.
bootstrap_as_leader(im, inp) ==
    LET ce == probe_in_order(im, inp.ans, inp.order, <<>>)
        r == remove_stale_self(inp, ce.found, ce.calls)
    IN  IF inp.marker THEN Sel(<<>>, "existing", "descriptor", "none", inp.data)
        ELSE IF ce.err THEN Sel(ce.calls, "error", "none", "none", inp.data)
        ELSE IF ce.found # "none"
        THEN member_add_learner(inp, ce.found, r.calls, inp.data, "error")
        ELSE Sel(ce.calls, "new", "self", "none", inp.data)

bootstrap_as_follower_unmarked(im, inp) ==
    LET w == wait_for_peer(im, inp.ans, MaxPolls, <<>>)
    IN  IF im = "main" /\ inp.marker
        THEN Sel(<<>>, "existing", "descriptor", "none", inp.data)
        ELSE IF w.found = "none" THEN Sel(w.calls, "retry", "none", "none", inp.data)
        ELSE add_self_calls(im, inp, w.found, w.calls)

\* The non-leader branch of the loop head / bootstrap_as_follower.
bootstrap_as_follower(im, inp) ==
    LET w == wait_for_peer(im, inp.ans, MaxPolls, <<>>)
    IN  IF inp.marker THEN Sel(<<>>, "existing", "descriptor", "none", inp.data)
        ELSE IF w.found = "none" THEN Sel(w.calls, "retry", "none", "none", inp.data)
        ELSE add_self_calls(im, inp, w.found, w.calls)

SelectInit ==
    /\ EtcdInit
    /\ wd = WdIdle
    /\ run = RunIdle
    /\ hap = HapIdle
    /\ tpl = TplIdle
    /\ rc = RcIdle
    /\ pb = PbIdle
    /\ yml = YmlIdle
    /\ prs = PrsIdle
    /\ dp = DpIdle
    /\ tk = TkIdle
    /\ sc = ScIdle
    /\ hb = HbIdle
    /\ sel \in {[SelIdle EXCEPT !.phase = "called", !.inp = i] : i \in SelInputs}

\* One implementation computes the parameters of the attempt.
SelRun(im) ==
    /\ sel.phase = "called"
    /\ ~sel.out[im].done
    /\ sel' = [sel EXCEPT !.out[im] =
                   IF sel.inp.leader THEN bootstrap_as_leader(im, sel.inp)
                   ELSE bootstrap_as_follower(im, sel.inp)]
    /\ UNCHANGED <<etcdVars, wd, run, hap, tpl, rc, pb, yml, prs, dp, tk, sc, hb>>

SelectNext == \E im \in Impls : SelRun(im)

SelectSpec == SelectInit /\ [][SelectNext]_vars

\* ----------------------------------------------------------------- claims
\* The lexicographically smallest name of the descriptor.
SmallestName == CHOOSE n \in Descriptor : \A m \in Descriptor : ~NameLess(m, n)

\* C1: a daemon is spawned with cluster_state "new" only if, in that
\* attempt, the node has the smallest name of the descriptor, the marker was
\* absent, no remote endpoint answered the health probe as healthy, and
\* initial_cluster is the single entry of the node itself.
C1_NewOnlyFresh ==
    \A n \in Nodes :
        params[n].state = "new" =>
            /\ n = SmallestName
            /\ ~params[n].marker
            /\ ~params[n].healthy
            /\ params[n].ic = {n}

\* A second fresh bootstrap of the leader in a later attempt: the daemon of
\* the first one created a cluster and exited before its marker was written.
C1_Witness ==
    \E n \in Nodes :
        /\ pc[n] = "running"
        /\ params[n].state = "new"
        /\ attempt[n] > 1
        /\ nextCid > 1

\* C2: a leader that restarts without marker while a remote daemon serves
\* from a committed data directory never starts with cluster_state "new",
\* and at no time do two clusters of the descriptor have a voter with a
\* committed data directory.
CommittedClusters ==
    {c \in 1..MaxClusters :
        \E n \in Nodes : cid[n] = c /\ marker[n] /\ members[c][n] = "voter"}

C2_OneCluster ==
    /\ \A n \in Nodes : params[n].state = "new" => ~params[n].survivors
    /\ Cardinality(CommittedClusters) <= 1

\* C3: a node other than the smallest name of the descriptor never selects
\* cluster_state "new", in any attempt and whatever it observed.
C3_OnlyLexMinNew ==
    \A n \in Nodes \ {SmallestName} : params[n].state # "new"

\* A non-leader that found no healthy peer in an earlier attempt and is
\* spawned in a later one, while the leader runs its fresh bootstrap.
C3_Witness ==
    \E n \in Nodes \ {SmallestName} :
        /\ attempt[n] > 1
        /\ pc[n] = "running"
        /\ params[n].state = "existing"
        /\ params[SmallestName].state = "new"

\* C4: with the marker present, the attempt selects (full descriptor,
\* existing, not a learner) and changes no member list, and neither the
\* start-up cleanup nor the post-exit cleanup removes anything from the data
\* directory.
C4_MarkerResumes ==
    [][\A n \in Nodes :
          marker[n] =>
            /\ (pc[n] = "select" /\ pc'[n] \notin {"select", "boot"}) =>
                  /\ pc'[n] = "running"
                  /\ params'[n].ic = Descriptor
                  /\ params'[n].state = "existing"
                  /\ ~params'[n].jl
                  /\ members' = members
                  /\ data'[n] = data[n]
            /\ (pc[n] = "boot" /\ pc'[n] # "boot") =>
                  (data'[n] = data[n] /\ marker'[n])
            /\ (pc[n] = "running" /\ pc'[n] \in {"select", "exited"}) =>
                  (data'[n] = data[n] /\ marker'[n])]_vars

\* The leader resumed from its marker in a later attempt of the loop, with
\* its WAL in place, while remote peers answer healthy: the daemon exit that
\* ended the earlier attempt left the data directory alone.
C4_Witness ==
    \E n \in Nodes :
        /\ is_leader(n)
        /\ pc[n] = "running"
        /\ attempt[n] > 1
        /\ params[n].marker
        /\ \E e \in Descriptor \ {n} : Health(e)
        /\ data[n] = "wal"

C7_LearnerThenPromote ==
    /\ [][\A c \in 1..MaxClusters : \A n \in Nodes :
             (c < nextCid /\ members[c][n] = "none" /\ members'[c][n] # "none")
                => members'[c][n] = "learner"]_vars
    /\ [][\A n \in Nodes :
             ("promote_rpc" \in log'[n] /\ "promote_rpc" \notin log[n])
                => /\ pc[n] = "running"
                   /\ TRUE \in check_cluster_health(n)
                   /\ \E e \in Descriptor :
                        Health(e) /\ members[cid[e]][e] = "voter"]_vars

\* A node that joined as a learner was promoted by member promote and is now
\* a voter of the cluster its daemon serves.
C7_Witness ==
    \E n \in Nodes :
        /\ params[n].jl
        /\ "promote_rpc" \in log[n]
        /\ serving[n]
        /\ cid[n] # 0
        /\ members[cid[n]][n] = "voter"

\* C8: when the WAL directory cannot be read, add_self_to_cluster treats the
\* data directory as populated: the join neither removes the member entry of
\* the node nor wipes the data directory.
C8_FailSafe ==
    [][\A n \in Nodes :
          (pc[n] = "probed" /\ ~is_leader(n) /\ data[n] = "unreadable" /\ pc'[n] = "running")
             => ("remove" \notin log'[n] /\ "wipe" \notin log'[n])]_vars

\* C9: the attempt counter stays within max_retries inside the loop; every
\* retry-needed result and every non-zero daemon exit adds exactly one to
\* it and nothing else changes it; the supervisor exits non-zero exactly
\* when the counter passes max_retries, and a successful daemon exit ends
\* the loop with success.
RetryStep(n) ==
    \/ pc[n] = "select" /\ pc'[n] = "exited"
    \/ pc[n] = "probed" /\ pc'[n] \in {"select", "exited"}
    \/ pc[n] = "running" /\ pc'[n] \in {"select", "exited"} /\ exit'[n] # "ok"

C9_RetryLoop ==
    /\ [](\A n \in Nodes :
             /\ attempt[n] \in 1..(MaxRetries + 1)
             /\ pc[n] \in {"select", "probed", "running"} => attempt[n] <= MaxRetries
             /\ exit[n] = "retries" <=> attempt[n] = MaxRetries + 1
             /\ exit[n] # "none" <=> pc[n] = "exited")
    /\ [][\A n \in Nodes :
             /\ RetryStep(n) => attempt'[n] = attempt[n] + 1
             /\ (attempt'[n] # attempt[n] /\ pc'[n] # "boot" /\ pc[n] # "boot") =>
                   /\ attempt'[n] = attempt[n] + 1
                   /\ RetryStep(n) \/ (pc[n] = "select" /\ pc'[n] = "select")
             /\ (pc[n] = "running" /\ pc'[n] = "exited" /\ attempt'[n] = attempt[n])
                   => exit'[n] = "ok"]_vars

\* One supervisor ran out of attempts, another ended with a clean daemon exit.
C9_Witness ==
    \E n, m \in Nodes :
        /\ exit[n] = "retries" /\ attempt[n] = MaxRetries + 1
        /\ exit[m] = "ok"

\* The cluster of scenario S1 is formed: the leader runs the single-node
\* cluster it created, every other node added itself as a learner and was
\* started with "existing", all are voters of the one cluster and all
\* markers are written.
C10_Witness ==
    /\ nextCid = 2
    /\ \A n \in Nodes :
          /\ pc[n] = "running"
          /\ marker[n]
          /\ cid[n] = 1
          /\ members[1][n] = "voter"
    /\ params[SmallestName].state = "new"
    /\ params[SmallestName].ic = {SmallestName}
    /\ \A n \in Nodes \ {SmallestName} :
          /\ params[n].state = "existing"
          /\ params[n].jl
          /\ promoted[n]
          /\ "promote_rpc" \in log[n]

\* C10: in scenario S1, eventually and from then on the cluster is formed:
\* a started single-node with "new", b and c joined as learners with
\* "existing", all three are voters and all three markers are written.
C10_FreshClusterForms == <>[]C10_Witness

\* C11: against the oracle whose member list reports is_learner = false for
\* self after one promotion call, a watchdog whose node joined as a learner
\* issues member promote exactly once in the whole run: the call is made
\* before the marker exists, the marker is written only after it, and no
\* later iteration issues another one.
C11_OnePromotion ==
    /\ []((wd.kind = "flip" /\ wd.jl) =>
             /\ wd.rpcs <= 1
             /\ wd.marker => (wd.rpcs = 1 /\ wd.promoted /\ wd.role = "voter"))
    /\ [][(wd.kind = "flip" /\ wd.jl /\ wd'.rpcs # wd.rpcs) =>
             /\ wd.rpcs = 0
             /\ wd'.rpcs = 1
             /\ ~wd.marker
             /\ ~wd.promoted]_vars

\* The learner was promoted by its one call, wrote the marker, and a later
\* healthy iteration did nothing more.
C11_Witness ==
    /\ wd.kind = "flip"
    /\ wd.jl
    /\ wd.alive
    /\ wd.marker
    /\ ~wd.wrote
    /\ wd.rpcs = 1
    /\ wd.ticks = MaxTicks

\* C12: promote_self succeeds when member promote succeeds, when it fails
\* with "is not a learner" and when self is already listed as a voter; the
\* watchdog then sets promoted and the marker exists after the iteration.
\* It fails for every other promote error, without a voting endpoint and
\* without a member id of self; promoted stays false and the iteration
\* writes no marker.
C12_PromoteOutcome ==
    /\ wd.cause \in {"rpc_ok", "not_a_learner", "already_voter"} =>
          (wd.ok /\ wd.promoted /\ wd.marker)
    /\ wd.cause \in {"rpc_err", "no_endpoint", "no_id"} =>
          (~wd.ok /\ ~wd.promoted /\ ~wd.wrote /\ ~wd.marker)

\* member promote was refused with "is not a learner" and the iteration
\* wrote the marker.
C12_Witness ==
    /\ wd.cause = "not_a_learner"
    /\ wd.ok
    /\ wd.promoted
    /\ wd.wrote

\* C13: in steady-state monitoring the failure counter equals the number of
\* failed probes since the last successful one; the supervisor sends
\* SIGTERM, then SIGKILL, and exits 1 exactly when that number reaches
\* max_failures, and never for failed probes separated by a success.
C13_ConsecutiveFailures ==
    /\ run.failures = TrailingFailures(run.hist)
    /\ run.failures <= MaxFailures
    /\ run.failures = MaxFailures <=> run.why = "max_failures"
    /\ run.why = "max_failures" =>
          /\ run.phase = "exited"
          /\ run.code = 1
          /\ run.sent = <<"TERM", "KILL">>

\* The supervisor gave up after max_failures failed probes in a row; an
\* earlier failed probe was followed by a success and did not count.
C13_Witness ==
    /\ run.why = "max_failures"
    /\ Len(run.hist) > MaxFailures + 1
    /\ ~run.hist[1]
    /\ run.hist[2]

\* C14: steady-state monitoring begins only after a start-up probe has
\* succeeded; without one, at max_startup_timeout the supervisor sends
\* SIGTERM, then SIGKILL, and exits 1.
C14_SteadyOnlyAfterHealthy ==
    /\ (run.phase = "steady" \/ run.hist # <<>>) => run.healthySeen
    /\ run.why = "startup_timeout" =>
          /\ ~run.healthySeen
          /\ run.elapsed >= MaxStartupTicks
          /\ run.code = 1
          /\ run.sent = <<"TERM", "KILL">>
    /\ (~run.healthySeen /\ run.elapsed >= MaxStartupTicks /\ run.why # "signal"
            /\ run.why # "child_died")
          => run.why = "startup_timeout"

\* C15: SIGTERM or SIGINT is taken in every state of the start-up loop and
\* of the steady-state loop; the supervisor sends SIGTERM to the child, waits
\* for the child to exit and exits 0, and never sends SIGKILL on this path.
C15_GracefulShutdown ==
    /\ [](run.phase \in {"startup", "steady"} => ENABLED RunSignal)
    /\ [](run.why = "signal" =>
             /\ run.sent = <<"TERM">>
             /\ run.phase \in {"draining", "exited"}
             /\ run.phase = "exited" => (run.code = 0 /\ run.child = "dead"))
    /\ [][(run.why = "none" /\ run'.why = "signal") =>
             /\ run'.phase = "draining"
             /\ run'.sent = Append(run.sent, "TERM")]_vars
    /\ [][(run.phase = "draining" /\ run'.phase # "draining") =>
             /\ run.child = "dead"
             /\ run'.phase = "exited"
             /\ run'.code = 0
             /\ run'.sent = run.sent]_vars

\* A signal during start-up, before any probe succeeded, ended with exit 0.
C15_Witness ==
    /\ run.why = "signal"
    /\ run.phase = "exited"
    /\ run.code = 0
    /\ run.elapsed > 0
    /\ ~run.healthySeen
    /\ run.hist = <<>>

\* C16: whatever branch leaves the monitoring loop, the supervisor exits:
\* the child gets SIGTERM and, 2 s later, SIGKILL, so a child that ignores
\* SIGTERM cannot block the exit.
C16_ExitNeverBlocked == (run.why # "none") ~> (run.phase = "exited")

\* C17: the supervisor exits 0 after a signal-driven shutdown and 1 after a
\* start-up timeout or max_failures; when the child exits on its own it
\* exits with the child's status (0 for 0), after a process-died event.
C17_ExitCodes ==
    run.phase = "exited" =>
        /\ run.why = "signal" => run.code = 0
        /\ run.why \in {"startup_timeout", "max_failures"} => run.code = 1
        /\ run.why = "child_died" =>
              (run.code = run.childCode /\ "process_died" \in run.events)

RECURSIVE LastCount(_)
\* The count of the last probe that returned one (1 before the first).
LastCount(h) ==
    IF h = <<>> THEN 1
    ELSE IF h[Len(h)] >= 0 THEN h[Len(h)]
    ELSE LastCount(SubSeq(h, 1, Len(h) - 1))

RECURSIVE Outages(_)
\* Number of outages in a sequence of probe results: counts of zero that
\* follow the start or a count of one or more.
Outages(h) ==
    IF h = <<>> THEN 0
    ELSE LET f == SubSeq(h, 1, Len(h) - 1)
         IN  Outages(f) + (IF h[Len(h)] = 0 /\ LastCount(f) > 0 THEN 1 ELSE 0)

\* C18: in the HAProxy probe loop a no-primary event is emitted exactly on
\* a tick whose count is zero while not alerted, the flag is set by a count
\* of zero and cleared by a count of one or more, and the number of events
\* equals the number of distinct outages.
C18_OneEventPerOutage ==
    [][hap'.hist # hap.hist =>
         LET res == hap'.hist[Len(hap'.hist)]
         IN  /\ hap'.events = hap.events + (IF res = 0 /\ ~hap.alerted THEN 1 ELSE 0)
             /\ (res = 0 /\ hap.alerted) => hap'.events = hap.events
             /\ res > 0 => ~hap'.alerted
             /\ res = 0 => hap'.alerted
             /\ hap'.events = Outages(hap'.hist)]_vars

\* Two outages, the first of them two ticks long: two events.
C18_Witness ==
    /\ hap.events = 2
    /\ \E i \in 1..(Len(hap.hist) - 1) : hap.hist[i] = 0 /\ hap.hist[i + 1] = 0

\* The lines of the backend section named b: from its header to the next
\* frontend or backend line.
BackendSection(out, b) ==
    LET start == CHOOSE i \in 1..Len(out) :
                     out[i].kw = "backend" /\ out[i].words = <<b>>
        heads == {j \in (start + 1)..Len(out) : out[j].kw \in {"frontend", "backend"}}
        stop == IF heads = {} THEN Len(out) + 1
                ELSE CHOOSE j \in heads : \A k \in heads : j <= k
    IN  SubSeq(out, start + 1, stop - 1)

IsServerLine(l) == l.kw = "server"

ServerLines(section) == SelectSeq(section, IsServerLine)

HasWord(l, w) == \E k \in 1..Len(l.words) : l.words[k] = w

\* C19: for a descriptor of n >= 1 well-formed entries the file is rendered
\* and each of the two backends holds exactly n server lines, one per entry
\* in order, named by the first dot-segment of the host and routing to
\* host:pg_port; option httpchk and "check port <agent_port>" are present
\* iff n >= 2, and for n = 1 the server line has a plain check and no port.
C19_ServerLines ==
    LET n == Len(tpl.desc)
        valid == \A i \in 1..n : Len(tpl.desc[i]) = 3
    IN  /\ (tpl.phase = "rendered") => valid
        /\ (tpl.phase = "error") => ~valid
        /\ (tpl.phase = "rendered") =>
             \A b \in {"postgresql_primary_backend", "postgresql_replicas_backend"} :
               LET section == BackendSection(tpl.out, b)
                   sl == ServerLines(section)
                   httpchk == \E k \in 1..Len(section) :
                                 section[k].kw = "option" /\ section[k].words = <<"httpchk">>
               IN  /\ Len(sl) = n
                   /\ httpchk <=> n >= 2
                   /\ \A i \in 1..n :
                        /\ sl[i].name = tpl.desc[i][1][1]
                        /\ sl[i].host = tpl.desc[i][1]
                        /\ sl[i].port = tpl.desc[i][2]
                        /\ sl[i].words[1] = "check"
                        /\ HasWord(sl[i], "port") <=> n >= 2
                        /\ n >= 2 => SubSeq(sl[i].words, 2, 3) = <<"port", tpl.desc[i][3]>>
                        /\ n = 1 => ~HasWord(sl[i], tpl.desc[i][3])

\* A rendered file of two entries with different hosts.
C19_Witness ==
    /\ tpl.phase = "rendered"
    /\ Len(tpl.desc) = 2
    /\ tpl.desc[1][1] # tpl.desc[2][1]
    /\ Len(tpl.desc[1][1]) > 1

\* C20: the role-change callback exits with code 0 for every argument vector
\* and every telemetry outcome; it builds an event only when the action is
\* on_role_change (failover for master/primary, rejoined for
\* replica/standby, the generic event for any other role), and for any other
\* action it exits 0 without building or sending anything.
C20_AlwaysExitsZero ==
    (rc.phase = "exited") =>
        LET action == arg_or_empty(rc.args, 1)
            role == arg_or_empty(rc.args, 2)
        IN  /\ rc.code = 0
            /\ (rc.event # "none") <=> (action = "on_role_change")
            /\ (action = "on_role_change") =>
                  rc.event = (IF role \in {"master", "primary"} THEN "POSTGRES_HA_FAILOVER"
                              ELSE IF role \in {"replica", "standby"} THEN "POSTGRES_HA_REJOINED"
                              ELSE "POSTGRES_HA_ROLE_CHANGE")
            /\ (action # "on_role_change") => rc.telemetry = "none"

\* C21: when the callback is invoked with action on_role_change, the POST of
\* the mapped event has been issued by the time the process exits.
C21_SentBeforeExit ==
    (rc.phase = "exited" /\ rc.event # "none") => rc.telemetry # "unsent"

\* A required superuser or replication value is missing or empty.
PbFieldFailure ==
    \E f \in {"repl_user", "repl_pass", "superuser", "superuser_pass"} :
        pb.creds[f] \in {Absent, ""}

\* C22: every failing step of the post-bootstrap script (configuration file
\* missing, credentials unreadable, a required superuser or replication
\* field missing or empty, a failing SQL step) results in a bootstrap-failed
\* event with a phase label and in a non-zero exit.
C22_FailureReported ==
    (/\ pb.phase = "exited"
     /\ \/ pb.file # "ok"
        \/ PbFieldFailure
        \/ pb.failed \in {"create_users", "db_exists", "create_db", "grant"})
    => /\ pb.code # 0
       /\ \E e \in pb.events : e.type = "bootstrap_failed" /\ e.phase # ""

\* C23: the marker is written and the bootstrap-completed event is emitted
\* only after every credential check and every step has succeeded; on every
\* failure path there is neither marker nor bootstrap-completed event.
C23_MarkerOnlyOnSuccess ==
    LET completed == PbEvent("bootstrap_completed", "") \in pb.events
    IN  /\ (pb.marker \/ completed) =>
               /\ pb.phase = "exited"
               /\ pb.failed = "none"
               /\ pb.code = 0
               /\ pb.file = "ok"
               /\ \A f \in {"repl_user", "repl_pass", "superuser"} :
                      pb.creds[f] \notin {Absent, ""}
               /\ pb.creds.superuser_pass # Absent
        /\ (pb.phase = "exited" /\ (pb.failed # "none" \/ pb.code # 0)) =>
               ~pb.marker /\ ~completed
        /\ pb.marker <=> completed

\* A successful run with an application database and a grant.
C23_Witness ==
    /\ pb.phase = "exited"
    /\ pb.marker
    /\ pb.app_db
    /\ pb.app_grant
    /\ PbEvent("bootstrap_completed", "") \in pb.events

\* C24: reading the credentials back from the configuration rendered from a
\* credentials bundle yields exactly that bundle.
C24_RoundTrip ==
    (yml.phase = "read") => (yml.ok /\ yml.got = yml.bundle)

\* C25: every configuration the runner renders and starts the agent with
\* satisfies loop_wait + 2 * retry_timeout <= ttl, the defaults with a
\* margin of 10; environment values that violate it are rejected before the
\* configuration is written or the agent is spawned.
C25_TimingInvariant ==
    LET lhs(c) == c.loop_wait + 2 * c.retry_timeout
        unset == prs.env.ttl = -1 /\ prs.env.loop_wait = -1 /\ prs.env.retry_timeout = -1
    IN  /\ (prs.written \/ prs.spawned) => lhs(prs.cfg) <= prs.cfg.ttl
        /\ (prs.phase = "spawned" /\ unset) => prs.cfg.ttl - lhs(prs.cfg) = 10

\* C30: the runner writes its marker, and prepends replication rules to the
\* auth file, only when pg_control is present, the marker is absent and the
\* adopt flag is true; otherwise it changes neither.
C30_AdoptionFrame ==
    [][(prs'.marker # prs.marker \/ prs'.hba # prs.hba) =>
           (prs.pg_control /\ ~prs.marker /\ prs.adopt)]_vars

\* C26: a descriptor with a malformed entry makes the supervisor fail
\* fatally: no member add or remove, no wipe, no daemon, no retry.
C26_MalformedIsFatal ==
    (dp.phase = "done" /\ \E i \in 1..Len(dp.desc) : MalformedEntry(dp.desc[i])) =>
        /\ dp.code = 1
        /\ dp.ops = {}
        /\ ~dp.spawned
        /\ ~dp.retried

\* C27: the data directory, marker included, is never accessed by more than
\* one task: no write of the watchdog to the data directory is under way
\* while the main task tests the marker or wipes the directory, and the
\* watchdog is cancelled before the main task touches the directory.
C27_ExclusiveDataDir ==
    (tk.main \in {"checking", "wiping"}) =>
        /\ tk.watchdog = "cancelled"
        /\ tk.write # "inflight"

\* C28: a missing certificate is reported as not valid and as expiring
\* within any threshold; the entrypoint regenerates the certificates when
\* the certificate is missing, invalid, expiring within 30 days or its
\* check does not finish in time, and leaves them untouched only when the
\* certificate exists, is valid and is not expiring.
C28_SslRegeneration ==
    /\ ~is_valid_x509v3_cert("missing")
    /\ \A l \in Lifetimes, d \in Thresholds : cert_expires_within("missing", l, d)
    /\ [][(sc.phase = "called" /\ sc'.phase = "done") =>
            /\ sc'.regenerated <=>
                  \/ sc.cert \in {"missing", "garbage", "no_san"}
                  \/ sc.left < 30
                  \/ sc.valid_timeout
                  \/ sc.expiry_timeout
            /\ ~sc'.regenerated => (sc.cert = "valid" /\ sc.left >= 30 /\ sc'.code = 0)]_vars

\* A missing certificate was regenerated.
C28_Witness ==
    /\ sc.phase = "done"
    /\ sc.cert = "missing"
    /\ sc.regenerated
    /\ sc.code = 0

\* C29: a running watchdog's cluster health probe answers healthy exactly
\* when the local client endpoint or some client endpoint of the descriptor
\* answers the health check as healthy; in particular it never answers
\* unhealthy while a descriptor endpoint is healthy.
C29_ProbeFindsHealthyEndpoint ==
    \A n \in Nodes :
        pc[n] = "running" =>
            /\ TRUE \in check_cluster_health(n) =>
                   (Health(n) \/ \E e \in Descriptor : Health(e))
            /\ FALSE \in check_cluster_health(n) =>
                   ~(Health(n) \/ \E e \in Descriptor : Health(e))

\* C31: update_pg_hba_for_replication is idempotent: every call after the
\* first leaves the auth file as the first call left it, the first call
\* leaves a file that already holds a rule for the replication user
\* unchanged and otherwise puts the rules in front of it once, and a
\* missing auth file is never created.
C31_Idempotent ==
    /\ hb.calls >= 1 =>
          hb.file = update_pg_hba(hb.src, hb.user, hb.orig, "orig").file
    /\ (hb.orig.exists /\ hba_has_rule(hb.orig.content, hb.user)) => hb.file = hb.orig
    /\ (hb.orig.exists /\ ~hba_has_rule(hb.orig.content, hb.user) /\ hb.calls >= 1) =>
          hb.file.content = new_entries(hb.src, hb.user) \o hb.orig.content
    /\ ~hb.orig.exists => ~hb.file.exists

\* A second call on a file the first call put the rules in front of.
C31_Witness ==
    /\ hb.calls = 2
    /\ hb.orig.exists
    /\ hb.orig.content # <<>>
    /\ hb.file.content = new_entries(hb.src, hb.user) \o hb.orig.content
    /\ hb.mode = "0600"

\* The position of the first call c in a sequence of calls (0: not issued).
FirstCall(calls, c) ==
    IF \E i \in 1..Len(calls) : calls[i] = c
    THEN CHOOSE i \in 1..Len(calls) : calls[i] = c /\ \A j \in 1..(i - 1) : calls[j] # c
    ELSE 0

\* The selections of a joining node without marker that found itself listed
\* on the healthy peer it reached.
ListedJoins ==
    {im \in Impls : /\ sel.out[im].done
                    /\ ~sel.inp.leader
                    /\ ~sel.inp.marker
                    /\ sel.out[im].via # "none"
                    /\ sel.inp.list1
                    /\ sel.inp.listed # "no"}

\* C32: a joining node without marker that finds itself listed on the
\* healthy peer: without local data, member add is issued only after the
\* stale entry was removed and the data directory wiped, and a failed
\* removal ends the attempt with no add; with local data, neither member
\* remove nor member add is issued and a returned descriptor comes from the
\* member list.
C32_ListedJoin ==
    \A im \in ListedJoins :
        LET o == sel.out[im]
            e == o.via
            rem == FirstCall(o.calls, <<"remove", e>>)
            wipe == FirstCall(o.calls, <<"wipe", "self">>)
            add == FirstCall(o.calls, <<"add", e>>)
        IN  IF sel.inp.data \in {"none", "partial"}
            THEN /\ add # 0 => (0 < rem /\ rem < wipe /\ wipe < add /\ o.data = "none")
                 /\ ~sel.inp.rm => (add = 0 /\ o.out = "retry")
            ELSE /\ rem = 0
                 /\ add = 0
                 /\ o.out = "learner" => o.ic = "member_list"

\* C33: a non-leader without marker gets the parameters to spawn the
\* daemon only if a remote peer answered the health probe as healthy (the
\* bootstrap leader p whenever p is healthy) and the node is registered on
\* that peer: member add succeeded there, or the node was listed with local
\* data and no add was issued.  If no peer is healthy or the registration
\* fails the selection ends as retry-needed.
C33_JoinOnlyViaHealthyPeer ==
    \A im \in Impls :
        LET o == sel.out[im]
            add == FirstCall(o.calls, <<"add", o.via>>)
        IN  (o.done /\ ~sel.inp.leader /\ ~sel.inp.marker) =>
              /\ o.out \in {"learner", "retry"}
              /\ o.out = "learner" =>
                    /\ o.via \in {"p", "q"}
                    /\ sel.inp.ans[o.via] = "healthy"
                    /\ FirstCall(o.calls, <<"health", o.via>>) # 0
                    /\ sel.inp.ans.p = "healthy" => o.via = "p"
                    /\ \/ add # 0 /\ sel.inp.add
                       \/ /\ add = 0
                          /\ sel.inp.listed # "no"
                          /\ sel.inp.data \in {"wal", "unreadable"}
              /\ (sel.inp.ans.p # "healthy" /\ sel.inp.ans.q # "healthy") =>
                    (o.out = "retry" /\ \A i \in 1..Len(o.calls) : o.calls[i][1] = "health")
              /\ (add # 0 /\ ~sel.inp.add) => o.out = "retry"

\* The bootstrap leader does not answer, the other peer does, and member add
\* on it succeeds in both implementations.
C33_Witness ==
    /\ ~sel.inp.leader
    /\ ~sel.inp.marker
    /\ sel.inp.ans.p = "unhealthy"
    /\ \A im \in Impls :
          /\ sel.out[im].out = "learner"
          /\ sel.out[im].via = "q"
          /\ sel.out[im].ic = "add_output"

\* C34: in the leader's recovery the member list and member remove of
\* remove_stale_self precede member add --learner, all against the peer
\* that answered healthy; member add is issued whatever the removal
\* returned; a failed add ends the selection as retry-needed; and the
\* leader selects a fresh bootstrap only if no remote peer answered healthy.
C34_LeaderRecover ==
    \A im \in Impls :
        LET o == sel.out[im]
            e == o.via
            lst == FirstCall(o.calls, <<"list", e>>)
            rem == FirstCall(o.calls, <<"remove", e>>)
            add == FirstCall(o.calls, <<"add", e>>)
        IN  (o.done /\ sel.inp.leader /\ ~sel.inp.marker) =>
              /\ e # "none" =>
                    /\ sel.inp.ans[e] = "healthy"
                    /\ 0 < lst /\ lst < add
                    /\ (sel.inp.list1 /\ sel.inp.listed # "no") => (lst < rem /\ rem < add)
                    /\ \A i \in 1..Len(o.calls) :
                          o.calls[i][1] \in {"list", "remove", "add"} => o.calls[i][2] = e
                    /\ ~sel.inp.add => o.out = "retry"
              /\ o.out = "new" =>
                    /\ \A x \in {"p", "q"} : sel.inp.ans[x] # "healthy"
                    /\ \A i \in 1..Len(o.calls) : o.calls[i][1] = "health"
              /\ (\E x \in {"p", "q"} : sel.inp.ans[x] = "healthy") =>
                    (e # "none" \/ o.out = "error")

\* The removal of the stale entry fails and member add goes through.
C34_Witness ==
    /\ sel.inp.leader
    /\ ~sel.inp.marker
    /\ sel.inp.listed # "no"
    /\ sel.inp.list1
    /\ ~sel.inp.rm
    /\ \A im \in Impls :
          /\ sel.out[im].out = "learner"
          /\ FirstCall(sel.out[im].calls, <<"remove", sel.out[im].via>>) # 0

\* The selection issued a health probe that could not be executed.
ProbeNotExecuted(o) ==
    \E i \in 1..Len(o.calls) :
        o.calls[i][1] = "health" /\ sel.inp.ans[o.calls[i][2]] = "spawn_err"

\* C35: a health probe that could not be executed is an error and never
\* counts as an unhealthy answer: a leader without marker whose probe of a
\* remote peer could not be executed ends the selection with that error and
\* does not select the fresh bootstrap.
C35_SpawnErrorIsError ==
    \A im \in Impls :
        LET o == sel.out[im]
        IN  (o.done /\ sel.inp.leader /\ ~sel.inp.marker /\ ProbeNotExecuted(o)) =>
              (o.out # "new" /\ (o.via = "none" => o.out = "error"))

C37_MarkerOverData ==
    /\ tk.marker => tk.data
    /\ ~(tk.main = "wiping" /\ tk.marker)

\* C38: on the leader's recovery path and on the follower path alike, a
\* member add for the node is issued only when the peer lists no entry with
\* the node's name or peer URL, or after that entry was removed, so that
\* the member list never holds two entries of the node.
C38_AddOnlyWhenUnlisted ==
    \A im \in Impls :
        LET o == sel.out[im]
            rem == FirstCall(o.calls, <<"remove", o.via>>)
            add == FirstCall(o.calls, <<"add", o.via>>)
        IN  (o.done /\ add # 0) =>
              \/ sel.inp.listed = "no"
              \/ 0 < rem /\ rem < add /\ sel.inp.rm

\* C38 as amended: on the follower path a member add for the node is issued
\* only when the peer lists no entry of the node or after that entry was
\* removed; on the leader's recovery path the member list of
\* remove_stale_self, and the member remove of a listed entry, precede the
\* add, which is issued also when they failed.
C38_RemovalAttemptedBeforeAdd ==
    \A im \in Impls :
        LET o == sel.out[im]
            lst == FirstCall(o.calls, <<"list", o.via>>)
            rem == FirstCall(o.calls, <<"remove", o.via>>)
            add == FirstCall(o.calls, <<"add", o.via>>)
        IN  (o.done /\ add # 0) =>
              IF sel.inp.leader
              THEN /\ 0 < lst /\ lst < add
                   /\ (sel.inp.list1 /\ sel.inp.listed # "no") => (0 < rem /\ rem < add)
              ELSE \/ sel.inp.listed = "no"
                   \/ 0 < rem /\ rem < add /\ sel.inp.rm

\* A follower listed by peer URL only, without data: both implementations
\* remove the entry and add the node again.
C38_Witness ==
    /\ ~sel.inp.leader
    /\ sel.inp.listed = "url"
    /\ sel.inp.data = "none"
    /\ \A im \in Impls :
          /\ sel.out[im].out = "learner"
          /\ FirstCall(sel.out[im].calls, <<"remove", sel.out[im].via>>) # 0
          /\ FirstCall(sel.out[im].calls, <<"add", sel.out[im].via>>) # 0

\* C39: a tick of the probe loop on which the stats page cannot be fetched
\* emits no event and leaves the alerted flag as it was; the loop ends only
\* when HAProxy has exited, and the supervisor then exits with HAProxy's
\* exit code.
C39_FailedFetchIsNoOp ==
    /\ [][(hap'.hist # hap.hist /\ hap'.last \in {"err", "status"}) =>
            (hap'.events = hap.events /\ hap'.alerted = hap.alerted)]_vars
    /\ [](hap.phase = "exited" => (hap.child = "exited" /\ hap.code = hap.child_code))

\* Every health probe of the input could be executed and the WAL directory
\* can be read.
Executable(inp) ==
    /\ \A x \in {"p", "q"} : inp.ans[x] # "spawn_err"
    /\ inp.data # "unreadable"

====
